---------------------------- MODULE Spec2Model ----------------------------
(***************************************************************************)
(* A model of the wasm test-script front end (src/src/testcase.rs) and of  *)
(* the execution engine it drives.  TestCase::parse, parse_op, parse_ops,  *)
(* read_local, parse_invoke, parse_const, parse_int, Invoke::run,          *)
(* Assert::run and TestCase::run_all are translated from the source.  The  *)
(* modules `module`, `types`, `ops` and `interp` are imported by the       *)
(* source but are not part of it; they are modelled from the written       *)
(* specification (spec.md sections 3, 4 and 7).                            *)
(*                                                                         *)
(* Integers keep their width: a 32- or 64-bit value is a sequence of 4 or  *)
(* 8 bytes, least significant byte first.                                  *)
(***************************************************************************)
EXTENDS Integers, Sequences, FiniteSets, TLC

(***************************************************************************)
(* Bounds of the model.                                                    *)
(***************************************************************************)
\* longest list of param/local declarations enumerated for one function
MaxDecls == 3
\* longest list of func/export forms enumerated for one module
MaxForms == 3
\* longest list of asserts enumerated for one multi-assert script
MaxAsserts == 3

(***************************************************************************)
(* Fixed-width integers as byte sequences (index 1 is the low byte).       *)
(***************************************************************************)
\* the number of bytes of a value of the type
Width(ty) == IF ty \in {"Int32", "Float32"} THEN 4 ELSE 8

\* the function f on 1..n as a sequence of n evaluated elements
Tuple(f) == SubSeq(f, 1, Len(f))

ZeroBytes(w) == Tuple([i \in 1..w |-> 0])

OnesBytes(w) == Tuple([i \in 1..w |-> 255])

RECURSIVE NatBytes(_, _)
\* the w low bytes of the natural number n
NatBytes(n, w) ==
    IF w = 0 THEN <<>> ELSE <<n % 256>> \o NatBytes(n \div 256, w - 1)

\* the signed minimum of the width: only the top bit set
MinBytes(w) == Tuple([i \in 1..w |-> IF i = w THEN 128 ELSE 0])

NotBytes(a) == Tuple([i \in 1..Len(a) |-> 255 - a[i]])

RECURSIVE AddFrom(_, _, _, _)
AddFrom(a, b, i, c) ==
    IF i > Len(a) THEN <<>>
    ELSE LET s == a[i] + b[i] + c
         IN  <<s % 256>> \o AddFrom(a, b, i + 1, s \div 256)

\* wrapping addition, subtraction and negation modulo 2^(8 * Len(a))
AddBytes(a, b) == AddFrom(a, b, 1, 0)

SubBytes(a, b) == AddFrom(a, NotBytes(b), 1, 1)

NegBytes(a) == AddFrom(ZeroBytes(Len(a)), NotBytes(a), 1, 1)

RECURSIVE Column(_, _, _, _)
\* the sum of the byte products a[i] * b[k + 1 - i] for i in 1..k
Column(a, b, k, i) ==
    IF i > k THEN 0 ELSE a[i] * b[k + 1 - i] + Column(a, b, k, i + 1)

RECURSIVE MulFrom(_, _, _, _)
MulFrom(a, b, k, c) ==
    IF k > Len(a) THEN <<>>
    ELSE LET s == Column(a, b, k, 1) + c
         IN  <<s % 256>> \o MulFrom(a, b, k + 1, s \div 256)

\* wrapping multiplication modulo 2^(8 * Len(a))
MulBytes(a, b) == MulFrom(a, b, 1, 0)

RECURSIVE MulAddFrom(_, _, _, _)
MulAddFrom(a, k, i, c) ==
    IF i > Len(a) THEN <<>>
    ELSE LET s == k * a[i] + c
         IN  <<s % 256>> \o MulAddFrom(a, k, i + 1, s \div 256)

\* a * k + d modulo 2^(8 * Len(a)), for naturals k and d below 256
MulAddSmall(a, k, d) == MulAddFrom(a, k, 1, d)

RECURSIVE ULtFrom(_, _, _)
ULtFrom(a, b, i) ==
    IF i = 0 THEN FALSE
    ELSE IF a[i] # b[i] THEN a[i] < b[i]
    ELSE ULtFrom(a, b, i - 1)

\* unsigned a < b
ULt(a, b) == ULtFrom(a, b, Len(a))

IsZero(a) == \A i \in 1..Len(a) : a[i] = 0

IsNeg(a) == a[Len(a)] >= 128

\* signed a < b
SLt(a, b) ==
    IF IsNeg(a) # IsNeg(b) THEN IsNeg(a) ELSE ULt(a, b)

\* a widened with zero bytes to w bytes
ZeroExtend(a, w) == a \o ZeroBytes(w - Len(a))

RECURSIVE QuotDigit(_, _, _, _)
\* the largest d + t, t below 2 * bit, with (d + t) * bx <= r
QuotDigit(r, bx, d, bit) ==
    IF bit = 0 THEN d
    ELSE IF ULt(r, MulAddSmall(bx, d + bit, 0))
        THEN QuotDigit(r, bx, d, bit \div 2)
    ELSE QuotDigit(r, bx, d + bit, bit \div 2)

RECURSIVE DivModFrom(_, _, _, _)
\* long division from byte i of a down: the byte is brought down into the
\* remainder r (two bytes wider than the operands, as bx is); the result
\* holds the quotient bytes 1..i and the final remainder
DivModFrom(a, bx, i, r) ==
    IF i = 0 THEN [q |-> <<>>, r |-> SubSeq(r, 1, Len(a))]
    ELSE LET r2 == <<a[i]>> \o SubSeq(r, 1, Len(a) + 1)
             d == QuotDigit(r2, bx, 0, 128)
             rest == DivModFrom(a, bx, i - 1,
                                SubBytes(r2, MulAddSmall(bx, d, 0)))
         IN  [q |-> Append(rest.q, d), r |-> rest.r]

\* unsigned quotient and remainder, b nonzero
UDivMod(a, b) ==
    DivModFrom(a, ZeroExtend(b, Len(a) + 2), Len(a), ZeroBytes(Len(a) + 2))

AbsBytes(a) == IF IsNeg(a) THEN NegBytes(a) ELSE a

\* signed truncating quotient and remainder, b nonzero and not MIN / -1
SDivMod(a, b) ==
    LET d == UDivMod(AbsBytes(a), AbsBytes(b))
    IN  [q |-> IF IsNeg(a) # IsNeg(b) THEN NegBytes(d.q) ELSE d.q,
         r |-> IF IsNeg(a) THEN NegBytes(d.r) ELSE d.r]

\* the bits of a value, index 1 the lowest, and the value of a bit sequence
BitsOf(a) ==
    Tuple([i \in 1..(8 * Len(a)) |->
             (a[((i - 1) \div 8) + 1] \div (2 ^ ((i - 1) % 8))) % 2])

BytesOf(bits) ==
    Tuple([k \in 1..(Len(bits) \div 8) |->
             bits[8 * k - 7] + 2 * bits[8 * k - 6] + 4 * bits[8 * k - 5]
             + 8 * bits[8 * k - 4] + 16 * bits[8 * k - 3]
             + 32 * bits[8 * k - 2] + 64 * bits[8 * k - 1] + 128 * bits[8 * k]])

(***************************************************************************)
(* Values (types::Dynamic) and types (types::Type).                        *)
(***************************************************************************)
\* a typed scalar: the type tag and the bytes of the bit pattern
Dynamic(ty, bytes) == [ty |-> ty, bytes |-> bytes]

\* Dynamic::from_u32 / from_u64: the bit pattern of an unsigned magnitude
from_unsigned(ty, n) == Dynamic(ty, SubSeq(n.mag, 1, Width(ty)))

\* Dynamic::from_i32 / from_i64: the twos-complement pattern of a signed value
from_signed(ty, n) ==
    LET low == SubSeq(n.mag, 1, Width(ty))
    IN  Dynamic(ty, IF n.neg THEN NegBytes(low) ELSE low)

\* the zero value of a type, which a declared local starts with
ZeroValue(ty) == Dynamic(ty, ZeroBytes(Width(ty)))

\* Type::to_u8: the one-byte code of a type in a function signature
to_u8(ty) ==
    CASE ty = "Int32" -> 1
      [] ty = "Int64" -> 2
      [] ty = "Float32" -> 3
      [] ty = "Float64" -> 4

\* the type a signature byte stands for
from_u8(b) ==
    CASE b = 1 -> "Int32"
      [] b = 2 -> "Int64"
      [] b = 3 -> "Float32"
      [] b = 4 -> "Float64"

(***************************************************************************)
(* S-expressions (sexpr::Sexpr) as the front end reads them.               *)
(***************************************************************************)
List(items) == [k |-> "List", items |-> items]

Identifier(text) == [k |-> "Identifier", text |-> text]

Variable(text) == [k |-> "Variable", text |-> text]

String(text) == [k |-> "String", text |-> text]

\* a list whose first item is the identifier `head`, as vec_form! matches it
IsForm(s, head) ==
    /\ s.k = "List"
    /\ Len(s.items) > 0
    /\ s.items[1].k = "Identifier"
    /\ s.items[1].text = head

\* a form `(head x1 .. xn)` with exactly n items after the head
IsFormN(s, head, n) == IsForm(s, head) /\ Len(s.items) = n + 1

\* the items after the head
Rest(s) == SubSeq(s.items, 2, Len(s.items))

(***************************************************************************)
(* Integer literals: str::as_bytes, from_str_radix and parse_int.          *)
(***************************************************************************)
\* the bytes of the literal tokens the scripts below use (one string per byte)
Bytes(text) ==
    CASE text = "0" -> <<"0">>
      [] text = "1" -> <<"1">>
      [] text = "2" -> <<"2">>
      [] text = "3" -> <<"3">>
      [] text = "5" -> <<"5">>
      [] text = "7" -> <<"7">>
      [] text = "10" -> <<"1", "0">>
      [] text = "14" -> <<"1", "4">>
      [] text = "-1" -> <<"-", "1">>
      [] text = "-7" -> <<"-", "7">>
      [] text = "0x10" -> <<"0", "x", "1", "0">>
      [] text = "2147483647" -> <<"2", "1", "4", "7", "4", "8", "3", "6", "4", "7">>
      [] text = "2147483648" -> <<"2", "1", "4", "7", "4", "8", "3", "6", "4", "8">>
      [] text = "-2147483648" ->
             <<"-", "2", "1", "4", "7", "4", "8", "3", "6", "4", "8">>
      [] text = "-2147483649" ->
             <<"-", "2", "1", "4", "7", "4", "8", "3", "6", "4", "9">>
      [] text = "4294967295" -> <<"4", "2", "9", "4", "9", "6", "7", "2", "9", "5">>
      [] text = "4294967296" -> <<"4", "2", "9", "4", "9", "6", "7", "2", "9", "6">>
      [] text = "0xffffffff" -> <<"0", "x", "f", "f", "f", "f", "f", "f", "f", "f">>
      [] text = "0x100000000" ->
             <<"0", "x", "1", "0", "0", "0", "0", "0", "0", "0", "0">>
      [] text = "0x80000000" -> <<"0", "x", "8", "0", "0", "0", "0", "0", "0", "0">>
      [] text = "-9223372036854775808" ->
             <<"-", "9", "2", "2", "3", "3", "7", "2", "0", "3", "6",
               "8", "5", "4", "7", "7", "5", "8", "0", "8">>
      [] text = "-9223372036854775809" ->
             <<"-", "9", "2", "2", "3", "3", "7", "2", "0", "3", "6",
               "8", "5", "4", "7", "7", "5", "8", "0", "9">>
      [] text = "18446744073709551615" ->
             <<"1", "8", "4", "4", "6", "7", "4", "4", "0", "7",
               "3", "7", "0", "9", "5", "5", "1", "6", "1", "5">>
      [] text = "18446744073709551616" ->
             <<"1", "8", "4", "4", "6", "7", "4", "4", "0", "7",
               "3", "7", "0", "9", "5", "5", "1", "6", "1", "6">>
      [] text = "0xffffffffffffffff" ->
             <<"0", "x", "f", "f", "f", "f", "f", "f", "f", "f",
               "f", "f", "f", "f", "f", "f", "f", "f">>
      [] text = "0x10000000000000000" ->
             <<"0", "x", "1", "0", "0", "0", "0", "0", "0", "0", "0",
               "0", "0", "0", "0", "0", "0", "0", "0">>
      [] text = "-" -> <<"-">>
      [] text = "0x" -> <<"0", "x">>
      [] text = "+5" -> <<"+", "5">>
      [] text = "1f" -> <<"1", "f">>
      [] text = "i32" -> <<"i", "3", "2">>
      [] text = "$a" -> <<"$", "a">>

\* char::to_digit: the value of a digit byte, 99 for a byte that is no digit
DigitValue(c) ==
    CASE c = "0" -> 0 [] c = "1" -> 1 [] c = "2" -> 2 [] c = "3" -> 3
      [] c = "4" -> 4 [] c = "5" -> 5 [] c = "6" -> 6 [] c = "7" -> 7
      [] c = "8" -> 8 [] c = "9" -> 9 [] c = "a" -> 10 [] c = "b" -> 11
      [] c = "c" -> 12 [] c = "d" -> 13 [] c = "e" -> 14 [] c = "f" -> 15
      [] OTHER -> 99

\* no range check: a literal out of range wraps
FitsAlways(acc, w, signed, neg) == TRUE

\* whether the magnitude acc (w bytes and one more) is a value of the integer
\* type: below 2^(8w) unsigned, below 2^(8w-1) signed positive, at most
\* 2^(8w-1) negative
Fits(acc, w, signed, neg) ==
    IF ~signed THEN acc[w + 1] = 0
    ELSE IF ~neg THEN acc[w + 1] = 0 /\ acc[w] < 128
    ELSE (acc[w + 1] = 0 /\ acc[w] < 128) \/ acc = MinBytes(w) \o <<0>>

RECURSIVE Digits(_, _, _, _, _, _, _)
\* the digit loop of from_str_radix: checked multiply by the radix, then
\* checked add (or subtract) of the digit
Digits(chars, i, radix, w, signed, neg, acc) ==
    IF i > Len(chars) THEN [ok |-> TRUE, neg |-> neg, mag |-> acc]
    ELSE LET d == DigitValue(chars[i])
             mul == MulAddSmall(acc, radix, 0)
             add == MulAddSmall(mul, 1, d)
         IN  IF d >= radix THEN [ok |-> FALSE]
             ELSE IF ~Fits(mul, w, signed, neg) THEN [ok |-> FALSE]
             ELSE IF ~Fits(add, w, signed, neg) THEN [ok |-> FALSE]
             ELSE Digits(chars, i + 1, radix, w, signed, neg, add)

\* u32/i32/u64/i64::from_str_radix on the bytes `chars`
from_str_radix(chars, radix, w, signed) ==
    IF Len(chars) = 0 THEN [ok |-> FALSE]
    ELSE LET neg == signed /\ chars[1] = "-"
             skip == IF chars[1] = "+" \/ neg THEN 1 ELSE 0
         IN  IF Len(chars) = skip THEN [ok |-> FALSE]
             ELSE Digits(chars, skip + 1, radix, w, signed, neg, ZeroBytes(w + 1))

starts_with(chars, prefix) ==
    Len(chars) >= Len(prefix) /\ SubSeq(chars, 1, Len(prefix)) = prefix

\* parse_int: [ok |-> FALSE] stands for the panic of unwrap() or panic!()
parse_int(node, ty) ==
    IF node.k # "Identifier" THEN [ok |-> FALSE]
    ELSE LET text == Bytes(node.text)
             w == Width(ty)
             n == IF starts_with(text, <<"-">>)
                      THEN from_str_radix(text, 10, w, TRUE)
                  ELSE IF starts_with(text, <<"0", "x">>)
                      THEN from_str_radix(SubSeq(text, 3, Len(text)), 16, w, FALSE)
                  ELSE from_str_radix(text, 10, w, FALSE)
         IN  IF ~n.ok THEN [ok |-> FALSE]
             ELSE IF starts_with(text, <<"-">>)
                 THEN [ok |-> TRUE, v |-> from_signed(ty, n)]
             ELSE [ok |-> TRUE, v |-> from_unsigned(ty, n)]

\* parse_type: [ok |-> FALSE] stands for panic!()
parse_type(text) ==
    CASE text = "i32" -> [ok |-> TRUE, v |-> "Int32"]
      [] text = "i64" -> [ok |-> TRUE, v |-> "Int64"]
      [] text = "f32" -> [ok |-> TRUE, v |-> "Float32"]
      [] text = "f64" -> [ok |-> TRUE, v |-> "Float64"]
      [] OTHER -> [ok |-> FALSE]

\* parse_const: a two-item list (i32.const n) or (i64.const n)
parse_const(s) ==
    IF s.k = "List" /\ Len(s.items) = 2 /\ s.items[1].k = "Identifier"
    THEN CASE s.items[1].text = "i32.const" -> parse_int(s.items[2], "Int32")
           [] s.items[1].text = "i64.const" -> parse_int(s.items[2], "Int64")
           [] OTHER -> [ok |-> FALSE]
    ELSE [ok |-> FALSE]

\* parse_invoke: (invoke "name" const*)
parse_invoke(s) ==
    IF IsForm(s, "invoke") /\ Len(s.items) >= 2 /\ s.items[2].k = "String"
    THEN LET args == Tuple([i \in 1..(Len(s.items) - 2) |->
                                parse_const(s.items[i + 2])])
         IN  IF \E i \in 1..Len(args) : ~args[i].ok THEN [ok |-> FALSE]
             ELSE [ok |-> TRUE,
                   v |-> [function_name |-> s.items[2].text,
                          arguments |-> Tuple([i \in 1..Len(args) |-> args[i].v])]]
    ELSE [ok |-> FALSE]

(***************************************************************************)
(* Instructions (ops::NormalOp) and their lowering: read_local, parse_ops  *)
(* and parse_op.                                                           *)
(***************************************************************************)
Nop == [op |-> "Nop"]

GetLocal(slot) == [op |-> "GetLocal", slot |-> slot]

SetLocal(slot) == [op |-> "SetLocal", slot |-> slot]

TeeLocal(slot) == [op |-> "TeeLocal", slot |-> slot]

Return(has_arg) == [op |-> "Return", has_arg |-> has_arg]

IntBin(ty, bop) == [op |-> "IntBin", ty |-> ty, bop |-> bop]

IntCmp(ty, cop) == [op |-> "IntCmp", ty |-> ty, cop |-> cop]

IntUn(ty, uop) == [op |-> "IntUn", ty |-> ty, uop |-> uop]

IntEqz(ty) == [op |-> "IntEqz", ty |-> ty]

\* the instruction names parse_op lowers to a Nop without reading operands
NopNames ==
    {
     "nop", "unreachable", "drop", "end", "i32.const", "i64.const",
     "f64.const", "f32.const", "call", "callindirect", "callimport",
     "i32.load8s", "i32.load8u", "i32.load16s", "i32.load16u",
     "i64.load8s", "i64.load8u", "i64.load16s", "i64.load16u",
     "i64.load32s", "i64.load32u", "i32.load", "i64.load", "f32.load",
     "f64.load", "i32.store8", "i32.store16", "i64.store8", "i64.store16",
     "i64.store32", "i32.store", "i64.store", "f32.store", "f64.store",
     "current_memory", "grow_memory", "f32.add", "f32.sub", "f32.mul",
     "f32.div", "f32.min", "f32.max", "f32.abs", "f32.neg", "f32.copysign",
     "f32.ceil", "f32.floor", "f32.trunc", "f32.nearest", "f32.sqrt",
     "f32.eq", "f32.ne", "f32.lt", "f32.le", "f32.gt", "f32.ge", "f64.add",
     "f64.sub", "f64.mul", "f64.div", "f64.min", "f64.max", "f64.abs",
     "f64.neg", "f64.copysign", "f64.ceil", "f64.floor", "f64.trunc",
     "f64.nearest", "f64.sqrt", "f64.eq", "f64.ne", "f64.lt", "f64.le",
     "f64.gt", "f64.ge", "i32.trunc_s/f32", "i32.trunc_s/f64",
     "i32.trunc_u/f32", "i32.trunc_u/f64", "i32.wrap/i64",
     "i64.trunc_s/f32", "i64.trunc_s/f64", "i64.trunc_u/f32",
     "i64.trunc_u/f64", "i64.extend_s/i32", "i64.extend_u/i32",
     "f32.convert_s/i32", "f32.convert_u/i32", "f32.convert_s/i64",
     "f32.convert_u/i64", "f32.demote/f64", "f32.reinterpret/i32",
     "f64.convert_s/i32", "f64.convert_u/i32", "f64.convert_s/i64",
     "f64.convert_u/i64", "f64.promote/f32", "f64.reinterpret/i64",
     "i32.reinterpret/f32", "i64.reinterpret/f64"
    }

\* the binary integer instructions: two operand expressions, then IntBin
IntBinNames ==
    {"i32.add", "i32.sub", "i32.mul", "i32.div_s", "i32.div_u",
     "i32.rem_s", "i32.rem_u", "i32.and", "i32.or", "i32.xor",
     "i32.shl", "i32.shr_u", "i32.shr_s", "i32.rotr", "i32.rotl",
     "i64.add", "i64.sub", "i64.mul", "i64.div_s", "i64.div_u",
     "i64.rem_s", "i64.rem_u", "i64.and", "i64.or", "i64.xor",
     "i64.shl", "i64.shr_u", "i64.shr_s", "i64.rotr", "i64.rotl"}

\* the op parse_op pushes for a binary integer instruction
IntBinOf(name) ==
    CASE name = "i32.add" -> IntBin("Int32", "Add")
      [] name = "i32.sub" -> IntBin("Int32", "Sub")
      [] name = "i32.mul" -> IntBin("Int32", "Mul")
      [] name = "i32.div_s" -> IntBin("Int32", "DivS")
      [] name = "i32.div_u" -> IntBin("Int32", "DivU")
      [] name = "i32.rem_s" -> IntBin("Int32", "RemS")
      [] name = "i32.rem_u" -> IntBin("Int32", "RemU")
      [] name = "i32.and" -> IntBin("Int32", "And")
      [] name = "i32.or" -> IntBin("Int32", "Or")
      [] name = "i32.xor" -> IntBin("Int32", "Xor")
      [] name = "i32.shl" -> IntBin("Int32", "Shl")
      [] name = "i32.shr_u" -> IntBin("Int32", "ShrU")
      [] name = "i32.shr_s" -> IntBin("Int32", "ShrS")
      [] name = "i32.rotr" -> IntBin("Int32", "Rotr")
      [] name = "i32.rotl" -> IntBin("Int32", "Rotl")
      [] name = "i64.add" -> IntBin("Int64", "Add")
      [] name = "i64.sub" -> IntBin("Int64", "Sub")
      [] name = "i64.mul" -> IntBin("Int64", "Mul")
      [] name = "i64.div_s" -> IntBin("Int64", "DivS")
      [] name = "i64.div_u" -> IntBin("Int64", "DivU")
      [] name = "i64.rem_s" -> IntBin("Int64", "RemS")
      [] name = "i64.rem_u" -> IntBin("Int64", "RemU")
      [] name = "i64.and" -> IntBin("Int64", "And")
      [] name = "i64.or" -> IntBin("Int64", "Or")
      [] name = "i64.xor" -> IntBin("Int64", "Xor")
      [] name = "i64.shl" -> IntBin("Int64", "Shl")
      [] name = "i64.shr_u" -> IntBin("Int64", "ShrU")
      [] name = "i64.shr_s" -> IntBin("Int64", "ShrS")
      [] name = "i64.rotr" -> IntBin("Int64", "Rotr")
      [] name = "i64.rotl" -> IntBin("Int64", "Rotl")

\* the comparison instructions: two operand expressions, then IntCmp
IntCmpNames ==
    {"i32.eq", "i32.ne", "i32.lt_s", "i32.le_s", "i32.lt_u",
     "i32.le_u", "i32.gt_s", "i32.ge_s", "i32.gt_u", "i32.ge_u",
     "i64.eq", "i64.ne", "i64.lt_s", "i64.le_s", "i64.lt_u",
     "i64.le_u", "i64.gt_s", "i64.ge_s", "i64.gt_u", "i64.ge_u"}

IntCmpOf(name) ==
    CASE name = "i32.eq" -> IntCmp("Int32", "Eq")
      [] name = "i32.ne" -> IntCmp("Int32", "Ne")
      [] name = "i32.lt_s" -> IntCmp("Int32", "LtS")
      [] name = "i32.le_s" -> IntCmp("Int32", "LeS")
      [] name = "i32.lt_u" -> IntCmp("Int32", "LtU")
      [] name = "i32.le_u" -> IntCmp("Int32", "LeU")
      [] name = "i32.gt_s" -> IntCmp("Int32", "GtS")
      [] name = "i32.ge_s" -> IntCmp("Int32", "GeS")
      [] name = "i32.gt_u" -> IntCmp("Int32", "GtU")
      [] name = "i32.ge_u" -> IntCmp("Int32", "GeU")
      [] name = "i64.eq" -> IntCmp("Int64", "Eq")
      [] name = "i64.ne" -> IntCmp("Int64", "Ne")
      [] name = "i64.lt_s" -> IntCmp("Int64", "LtS")
      [] name = "i64.le_s" -> IntCmp("Int64", "LeS")
      [] name = "i64.lt_u" -> IntCmp("Int64", "LtU")
      [] name = "i64.le_u" -> IntCmp("Int64", "LeU")
      [] name = "i64.gt_s" -> IntCmp("Int64", "GtS")
      [] name = "i64.ge_s" -> IntCmp("Int64", "GeS")
      [] name = "i64.gt_u" -> IntCmp("Int64", "GtU")
      [] name = "i64.ge_u" -> IntCmp("Int64", "GeU")

\* the unary integer instructions: one operand expression, then IntUn/IntEqz
IntUnNames ==
    {"i32.clz", "i32.ctz", "i32.popcnt", "i64.clz", "i64.ctz", "i64.popcnt",
     "i32.eqz", "i64.eqz"}

IntUnOf(name) ==
    CASE name = "i32.clz" -> IntUn("Int32", "Clz")
      [] name = "i32.ctz" -> IntUn("Int32", "Ctz")
      [] name = "i32.popcnt" -> IntUn("Int32", "Popcnt")
      [] name = "i64.clz" -> IntUn("Int64", "Clz")
      [] name = "i64.ctz" -> IntUn("Int64", "Ctz")
      [] name = "i64.popcnt" -> IntUn("Int64", "Popcnt")
      [] name = "i32.eqz" -> IntEqz("Int32")
      [] name = "i64.eqz" -> IntEqz("Int64")

\* the placeholder arms with drop lowered to an instruction that pops the
\* top value into slot 0
NopOfDropPops(name) == IF name = "drop" THEN SetLocal(0) ELSE Nop

\* the op parse_op pushes for an instruction it has no semantics for; the
\* operand expressions of the form are not lowered
NopOf(name) == Nop

\* the local-access arms with get_local pushing the op of tee_local
LocalOpOfTee(name, slot) ==
    CASE name = "get_local" -> TeeLocal(slot)
      [] name = "set_local" -> SetLocal(slot)
      [] name = "tee_local" -> TeeLocal(slot)

\* the local-access arms with tee_local pushing the op of set_local
LocalOpOfSet(name, slot) ==
    CASE name = "get_local" -> GetLocal(slot)
      [] name = "set_local" -> SetLocal(slot)
      [] name = "tee_local" -> SetLocal(slot)

\* the op parse_op pushes for a local-access instruction on a resolved slot
LocalOpOf(name, slot) ==
    CASE name = "get_local" -> GetLocal(slot)
      [] name = "set_local" -> SetLocal(slot)
      [] name = "tee_local" -> TeeLocal(slot)

\* the return arm with the test of num inverted
ReturnOfInverted(num) == Return(num = 0)

\* the op parse_op pushes for a return form with num operand expressions
ReturnOf(num) == Return(num = 1)

\* HashMap::insert: the later binding of a name replaces the earlier one
Insert(map, key, value) == (key :> value) @@ map

\* read_local: exactly one operand, a variable bound in local_names
read_local(exprs, local_names) ==
    IF Len(exprs) # 1 THEN [ok |-> FALSE]
    ELSE IF exprs[1].k # "Variable" THEN [ok |-> FALSE]
    ELSE IF exprs[1].text \notin DOMAIN local_names THEN [ok |-> FALSE]
    ELSE [ok |-> TRUE, v |-> local_names[exprs[1].text]]

RECURSIVE parse_op(_, _, _)
RECURSIVE ParseOpsFrom(_, _, _, _)

\* the loop of parse_ops from item i on: each expression in order
ParseOpsFrom(exprs, i, ops, local_names) ==
    IF i > Len(exprs) THEN [ok |-> TRUE, ops |-> ops, num |-> Len(exprs)]
    ELSE LET r == parse_op(exprs[i], ops, local_names)
         IN  IF ~r.ok THEN [ok |-> FALSE]
             ELSE ParseOpsFrom(exprs, i + 1, r.ops, local_names)

\* parse_ops lowering the expressions right to left
parse_ops_backward(exprs, ops, local_names) ==
    ParseOpsFrom(Tuple([i \in 1..Len(exprs) |-> exprs[Len(exprs) + 1 - i]]),
                 1, ops, local_names)

\* parse_ops: lowers the expressions left to right and counts them
parse_ops(exprs, ops, local_names) == ParseOpsFrom(exprs, 1, ops, local_names)

\* the arm of parse_op pushing the instruction before its operands' ops
WithOperandsAfter(args, ops, local_names, arity, instr) ==
    LET r == parse_ops(args, Append(ops, instr), local_names)
    IN  IF ~r.ok THEN [ok |-> FALSE]
        ELSE IF r.num # arity THEN [ok |-> FALSE]
        ELSE [ok |-> TRUE, ops |-> r.ops]

\* the arm of parse_op for an instruction that takes `arity` operand
\* expressions: the operands' ops first, then the instruction itself
WithOperands(args, ops, local_names, arity, instr) ==
    LET r == parse_ops(args, ops, local_names)
    IN  IF ~r.ok THEN [ok |-> FALSE]
        ELSE IF r.num # arity THEN [ok |-> FALSE]
        ELSE [ok |-> TRUE, ops |-> Append(r.ops, instr)]

\* parse_op: [ok |-> FALSE] stands for a panic (unwrap, assert!, panic!)
parse_op(s, ops, local_names) ==
    IF ~(s.k = "List" /\ Len(s.items) > 0 /\ s.items[1].k = "Identifier")
    THEN [ok |-> FALSE]
    ELSE LET op == s.items[1].text
             args == Rest(s)
         IN  CASE op \in NopNames -> [ok |-> TRUE, ops |-> Append(ops, NopOf(op))]
               [] op = "return" ->
                    LET r == parse_ops(args, ops, local_names)
                    IN  IF ~r.ok THEN [ok |-> FALSE]
                        ELSE IF ~(r.num = 0 \/ r.num = 1) THEN [ok |-> FALSE]
                        ELSE [ok |-> TRUE, ops |-> Append(r.ops, ReturnOf(r.num))]
               [] op \in {"get_local", "set_local", "tee_local"} ->
                    LET slot == read_local(args, local_names)
                    IN  IF ~slot.ok THEN [ok |-> FALSE]
                        ELSE [ok |-> TRUE,
                              ops |-> Append(ops, LocalOpOf(op, slot.v))]
               [] op \in IntBinNames ->
                    WithOperands(args, ops, local_names, 2, IntBinOf(op))
               [] op \in IntCmpNames ->
                    WithOperands(args, ops, local_names, 2, IntCmpOf(op))
               [] op \in IntUnNames ->
                    WithOperands(args, ops, local_names, 1, IntUnOf(op))
               [] OTHER -> [ok |-> FALSE]

(***************************************************************************)
(* The execution engine (interp::Instance): one instruction on a frame.    *)
(***************************************************************************)
\* the shift or rotation amount: the operand modulo the bit width
ShiftAmount(b) == b[1] % (8 * Len(b))

ShlBits(a, n) == [i \in 1..Len(a) |-> IF i > n THEN a[i - n] ELSE 0]

ShrUBits(a, n) == [i \in 1..Len(a) |-> IF i + n <= Len(a) THEN a[i + n] ELSE 0]

ShrSBits(a, n) ==
    [i \in 1..Len(a) |-> IF i + n <= Len(a) THEN a[i + n] ELSE a[Len(a)]]

RotlBits(a, n) == [i \in 1..Len(a) |-> a[((i - 1 - n) % Len(a)) + 1]]

RotrBits(a, n) == [i \in 1..Len(a) |-> a[((i - 1 + n) % Len(a)) + 1]]

\* arithmetic that checks for signed overflow instead of wrapping
BinTrapsChecked(bop, a, b) ==
    \/ bop \in {"DivS", "DivU", "RemS", "RemU"} /\ IsZero(b)
    \/ bop = "DivS" /\ a = MinBytes(Len(a)) /\ b = OnesBytes(Len(b))
    \/ bop = "Add" /\ IsNeg(a) = IsNeg(b) /\ IsNeg(AddBytes(a, b)) # IsNeg(a)
    \/ bop = "Sub" /\ IsNeg(a) # IsNeg(b) /\ IsNeg(SubBytes(a, b)) # IsNeg(a)
    \/ bop = "Mul" /\ ~IsZero(a) /\ SDivMod(MulBytes(a, b), a).q # b

\* whether the binary op traps on (a, b): division by zero, and the signed
\* overflow MIN / -1 of DivS
BinTraps(bop, a, b) ==
    \/ bop \in {"DivS", "DivU", "RemS", "RemU"} /\ IsZero(b)
    \/ bop = "DivS" /\ a = MinBytes(Len(a)) /\ b = OnesBytes(Len(b))

\* the result of a binary op that does not trap; a is the left operand
BinBytes(bop, a, b) ==
    LET x == BitsOf(a)
        y == BitsOf(b)
        n == ShiftAmount(b)
    IN  CASE bop = "Add" -> AddBytes(a, b)
          [] bop = "Sub" -> SubBytes(a, b)
          [] bop = "Mul" -> MulBytes(a, b)
          [] bop = "DivS" -> SDivMod(a, b).q
          [] bop = "DivU" -> UDivMod(a, b).q
          [] bop = "RemS" -> SDivMod(a, b).r
          [] bop = "RemU" -> UDivMod(a, b).r
          [] bop = "And" -> BytesOf([i \in 1..Len(x) |-> x[i] * y[i]])
          [] bop = "Or" ->
               BytesOf([i \in 1..Len(x) |-> IF x[i] + y[i] > 0 THEN 1 ELSE 0])
          [] bop = "Xor" -> BytesOf([i \in 1..Len(x) |-> (x[i] + y[i]) % 2])
          [] bop = "Shl" -> BytesOf(ShlBits(x, n))
          [] bop = "ShrU" -> BytesOf(ShrUBits(x, n))
          [] bop = "ShrS" -> BytesOf(ShrSBits(x, n))
          [] bop = "Rotl" -> BytesOf(RotlBits(x, n))
          [] bop = "Rotr" -> BytesOf(RotrBits(x, n))

\* the truth value of a comparison; a is the left operand
CmpHolds(cop, a, b) ==
    CASE cop = "Eq" -> a = b
      [] cop = "Ne" -> a # b
      [] cop = "LtS" -> SLt(a, b)
      [] cop = "LeS" -> ~SLt(b, a)
      [] cop = "LtU" -> ULt(a, b)
      [] cop = "LeU" -> ~ULt(b, a)
      [] cop = "GtS" -> SLt(b, a)
      [] cop = "GeS" -> ~SLt(a, b)
      [] cop = "GtU" -> ULt(b, a)
      [] cop = "GeU" -> ~ULt(a, b)

\* the number of leading zero, trailing zero or set bits
UnCount(uop, a) ==
    LET bits == BitsOf(a)
        w == Len(bits)
        set == {i \in 1..w : bits[i] = 1}
    IN  CASE uop = "Popcnt" -> Cardinality(set)
          [] uop = "Clz" ->
               IF set = {} THEN w
               ELSE w - (CHOOSE i \in set : \A j \in set : j <= i)
          [] uop = "Ctz" ->
               IF set = {} THEN w
               ELSE (CHOOSE i \in set : \A j \in set : i <= j) - 1

\* 1 for true and 0 for false, as a 32-bit integer
BoolValue(b) == Dynamic("Int32", NatBytes(IF b THEN 1 ELSE 0, 4))

\* the outcome of one instruction on (stack, locals); the top of the stack is
\* its last element.  kind is "next" (go on with the next instruction),
\* "return" (the invocation ends with `result`), "trap", or "abort" (the
\* engine cannot go on: an operand is missing or has the wrong type)
Next1(stack, locals) == [kind |-> "next", stack |-> stack, locals |-> locals]

Abort1(stack, locals) == [kind |-> "abort", stack |-> stack, locals |-> locals]

Top(stack) == stack[Len(stack)]

Pop(stack) == SubSeq(stack, 1, Len(stack) - 1)

\* SetLocal: pop one value and store it into the slot
ExecSetLocal(slot, stack, locals) ==
    IF Len(stack) < 1 \/ slot + 1 > Len(locals) THEN Abort1(stack, locals)
    ELSE Next1(Pop(stack), [locals EXCEPT ![slot + 1] = Top(stack)])

\* TeeLocal: pop one value, store it into the slot, push it back
ExecTeeLocal(slot, stack, locals) ==
    IF Len(stack) < 1 \/ slot + 1 > Len(locals) THEN Abort1(stack, locals)
    ELSE Next1(Append(Pop(stack), Top(stack)),
               [locals EXCEPT ![slot + 1] = Top(stack)])

\* GetLocal: push the current value of the slot
ExecGetLocal(slot, stack, locals) ==
    IF slot + 1 > Len(locals) THEN Abort1(stack, locals)
    ELSE Next1(Append(stack, locals[slot + 1]), locals)

\* Return{has_arg}: the invocation ends, with one popped value or with none
ExecReturn(has_arg, stack, locals) ==
    IF ~has_arg
    THEN [kind |-> "return", stack |-> stack, locals |-> locals,
          result |-> [kind |-> "Value", some |-> FALSE]]
    ELSE IF Len(stack) < 1 THEN Abort1(stack, locals)
    ELSE [kind |-> "return", stack |-> Pop(stack), locals |-> locals,
          result |-> [kind |-> "Value", some |-> TRUE, v |-> Top(stack)]]

\* IntBin: the right operand is popped first, then the left
ExecIntBin(ty, bop, stack, locals) ==
    IF Len(stack) < 2 THEN Abort1(stack, locals)
    ELSE LET b == Top(stack)
             a == Top(Pop(stack))
             rest == Pop(Pop(stack))
         IN  IF a.ty # ty \/ b.ty # ty THEN Abort1(stack, locals)
             ELSE IF BinTraps(bop, a.bytes, b.bytes)
                 THEN [kind |-> "trap", stack |-> rest, locals |-> locals]
             ELSE Next1(Append(rest, Dynamic(ty, BinBytes(bop, a.bytes, b.bytes))),
                        locals)

\* IntCmp: as IntBin, the result a 32-bit 0 or 1
ExecIntCmp(ty, cop, stack, locals) ==
    IF Len(stack) < 2 THEN Abort1(stack, locals)
    ELSE LET b == Top(stack)
             a == Top(Pop(stack))
         IN  IF a.ty # ty \/ b.ty # ty THEN Abort1(stack, locals)
             ELSE Next1(Append(Pop(Pop(stack)),
                               BoolValue(CmpHolds(cop, a.bytes, b.bytes))),
                        locals)

\* IntUn and IntEqz: one operand
ExecIntUn(op, stack, locals) ==
    IF Len(stack) < 1 THEN Abort1(stack, locals)
    ELSE LET a == Top(stack)
         IN  IF a.ty # op.ty THEN Abort1(stack, locals)
             ELSE IF op.op = "IntEqz"
                 THEN Next1(Append(Pop(stack), BoolValue(IsZero(a.bytes))), locals)
             ELSE Next1(Append(Pop(stack),
                               Dynamic(op.ty, NatBytes(UnCount(op.uop, a.bytes),
                                                       Width(op.ty)))),
                        locals)

\* one instruction on the frame
ExecOp(op, stack, locals) ==
    CASE op.op = "Nop" -> Next1(stack, locals)
      [] op.op = "GetLocal" -> ExecGetLocal(op.slot, stack, locals)
      [] op.op = "SetLocal" -> ExecSetLocal(op.slot, stack, locals)
      [] op.op = "TeeLocal" -> ExecTeeLocal(op.slot, stack, locals)
      [] op.op = "Return" -> ExecReturn(op.has_arg, stack, locals)
      [] op.op = "IntBin" -> ExecIntBin(op.ty, op.bop, stack, locals)
      [] op.op = "IntCmp" -> ExecIntCmp(op.ty, op.cop, stack, locals)
      [] op.op \in {"IntUn", "IntEqz"} -> ExecIntUn(op, stack, locals)

(***************************************************************************)
(* Building a module: module::Module, module::FunctionBuilder and the func *)
(* and export arms of TestCase::parse.                                     *)
(***************************************************************************)
\* Module::new: no functions, no code, no exports
NewModule == [functions |-> <<>>, code |-> <<>>, exports |-> <<>>]

\* FunctionBuilder::new together with the fresh local_names map
NewBuilder ==
    [ok |-> TRUE,
     ty |-> [param_types |-> <<>>, return_type |-> [some |-> FALSE]],
     local_types |-> <<>>, ops |-> <<>>, local_names |-> <<>>]

\* FunctionBuilder::build: the code entry of the finished function
build(func) == [local_types |-> func.local_types, ops |-> func.ops]

\* the slot a (param $id ty) form binds its name to
ParamSlot(func) == Len(func.ty.param_types)

\* the slot a (local $id ty) form binds its name to
LocalSlot(func) == Len(func.ty.param_types) + Len(func.local_types)

\* one item of a func form: the param, result and local arms, and the
\* fall-through to parse_op
FuncItem(func, s) ==
    IF IsFormN(s, "param", 2) THEN
        LET id == s.items[2]
            ty == s.items[3]
            t == IF ty.k = "Identifier" THEN parse_type(ty.text) ELSE [ok |-> FALSE]
        IN  IF id.k # "Variable" \/ ~t.ok THEN [ok |-> FALSE]
            ELSE [func EXCEPT
                    !.local_names = Insert(@, id.text, ParamSlot(func)),
                    !.ty.param_types = Append(@, to_u8(t.v))]
    ELSE IF IsFormN(s, "result", 1) THEN
        LET ty == s.items[2]
            t == IF ty.k = "Identifier" THEN parse_type(ty.text) ELSE [ok |-> FALSE]
        IN  IF ~t.ok THEN [ok |-> FALSE]
            ELSE [func EXCEPT !.ty.return_type = [some |-> TRUE, v |-> t.v]]
    ELSE IF IsFormN(s, "local", 2) THEN
        LET id == s.items[2]
            ty == s.items[3]
            t == IF ty.k = "Identifier" THEN parse_type(ty.text) ELSE [ok |-> FALSE]
        IN  IF id.k # "Variable" \/ ~t.ok THEN [ok |-> FALSE]
            ELSE [func EXCEPT
                    !.local_names = Insert(@, id.text, LocalSlot(func)),
                    !.local_types = Append(@, t.v)]
    ELSE
        LET r == parse_op(s, func.ops, func.local_names)
        IN  IF ~r.ok THEN [ok |-> FALSE] ELSE [func EXCEPT !.ops = r.ops]

RECURSIVE FuncItems(_, _, _)
\* the `while let Some(s) = it.next()` loop over the items from index i on
FuncItems(func, it, i) ==
    IF i > Len(it) THEN func
    ELSE LET f == FuncItem(func, it[i])
         IN  IF ~f.ok THEN f ELSE FuncItems(f, it, i + 1)

\* the first it.next() of the func arm: the function's name when the first
\* item is a variable; the item is consumed either way
FuncName(it) ==
    IF Len(it) > 0 /\ it[1].k = "Variable"
    THEN [some |-> TRUE, v |-> it[1].text]
    ELSE [some |-> FALSE]

\* the name bound to the length of the function list after the push
NameIndexAfterPush(mod) == Len(mod.functions) + 1

\* the index function_names binds a function's name to
NameIndex(mod) == Len(mod.functions)

\* the func arm: [ok |-> FALSE] stands for a panic
ParseFunc(it, mod, names) ==
    LET name == FuncName(it)
        func == FuncItems(NewBuilder, it, 2)
    IN  IF ~func.ok THEN [ok |-> FALSE]
        ELSE [ok |-> TRUE,
              names |-> IF name.some THEN Insert(names, name.v, NameIndex(mod))
                        ELSE names,
              mod |-> [mod EXCEPT !.functions = Append(@, func.ty),
                                  !.code = Append(@, build(func))]]

\* the export arm: the id must be a variable bound in function_names and the
\* name a string; [ok |-> FALSE] stands for a panic
ParseExport(name, id, mod, names) ==
    IF id.k # "Variable" \/ name.k # "String" THEN [ok |-> FALSE]
    ELSE IF id.text \notin DOMAIN names THEN [ok |-> FALSE]
    ELSE [ok |-> TRUE,
          mod |-> [mod EXCEPT !.exports =
                      Append(@, [function_index |-> names[id.text],
                                 function_name |-> name.text])]]

\* the module-level forms TestCase::parse accepts and ignores
IsIgnoredForm(s) ==
    \/ IsFormN(s, "import", 3) \/ IsFormN(s, "import", 4)
    \/ IsFormN(s, "type", 2) \/ IsFormN(s, "type", 1)
    \/ IsForm(s, "memory") \/ IsForm(s, "table")
    \/ IsFormN(s, "start", 1)

RECURSIVE FindFrom(_, _, _)
FindFrom(exports, name, i) ==
    IF i > Len(exports) THEN [some |-> FALSE]
    ELSE IF exports[i].function_name = name
        THEN [some |-> TRUE, v |-> exports[i].function_index]
    ELSE FindFrom(exports, name, i + 1)

\* Module::find: the function index of the first export with the name
find(mod, name) == FindFrom(mod.exports, name, 1)

\* whether the arguments match the declared parameter signature
ArgsMatch(args, param_types) ==
    /\ Len(args) = Len(param_types)
    /\ \A i \in 1..Len(args) : args[i].ty = from_u8(param_types[i])

(***************************************************************************)
(* The state of one run of a script: TestCase::parse, then run_all.        *)
(***************************************************************************)
VARIABLES
    script,          \* exprs: the top-level forms of the script
    pc,              \* "parse", "module", "run", "exec", "check", "done", "panic"
    why,             \* the place of the panic, "" while there is none
    ti,              \* the index of the next top-level form
    mi,              \* the index of the next item of the module form at ti
    m,               \* the module under construction
    function_names,  \* function name -> function index, of the module form
    builder,         \* func and local_names after the latest func arm
    module,          \* Option<Module>: the module of the TestCase
    asserts,         \* the asserts collected so far
    ai,              \* the index of the assert run_all is at
    func,            \* the function index of the invocation
    args,            \* the arguments of the invocation
    stack,           \* the operand stack of the frame
    locals,          \* the local slots of the frame
    ip,              \* the index of the next instruction
    result,          \* the InterpResult of the invocation
    trace,           \* the instruction indexes executed by the invocation
    before,          \* the stack and locals before the latest instruction
    earlier,         \* the stack and locals before the instruction before it
    hist             \* the invocations finished so far, in order

vars ==
    <<script, pc, why, ti, mi, m, function_names, builder, module, asserts,
      ai, func, args, stack, locals, ip, result, trace, before, earlier,
      hist>>

parseVars == <<m, function_names, builder, module, asserts>>

runVars ==
    <<ai, func, args, stack, locals, ip, result, trace, before, earlier,
      hist>>

Pending == [kind |-> "Pending"]

Trap == [kind |-> "Trap"]

ValueNone == [kind |-> "Value", some |-> FALSE]

ValueSome(v) == [kind |-> "Value", some |-> TRUE, v |-> v]

\* the top-level form the parser is at, and the module item it is at
Cur == script[ti]

Item == Cur.items[mi + 1]

AtTop == pc = "parse" /\ ti <= Len(script)

AtItem == pc = "module" /\ mi < Len(Cur.items)

\* (module ...): a new module and a new function_names map
ModuleBegin ==
    /\ AtTop /\ IsForm(Cur, "module")
    /\ m' = NewModule
    /\ function_names' = <<>>
    /\ mi' = 1
    /\ pc' = "module"
    /\ UNCHANGED <<script, why, ti, builder, module, asserts, runVars>>

\* (func ...) inside a module
FuncForm ==
    /\ AtItem /\ IsForm(Item, "func")
    /\ LET r == ParseFunc(Rest(Item), m, function_names)
       IN  IF r.ok
           THEN /\ m' = r.mod
                /\ function_names' = r.names
                /\ builder' = FuncItems(NewBuilder, Rest(Item), 2)
                /\ mi' = mi + 1
                /\ UNCHANGED <<pc, why>>
           ELSE /\ pc' = "panic"
                /\ why' = "func"
                /\ UNCHANGED <<m, function_names, builder, mi>>
    /\ UNCHANGED <<script, ti, module, asserts, runVars>>

\* (export "name" $id) inside a module
ExportForm ==
    /\ AtItem /\ IsFormN(Item, "export", 2)
    /\ LET r == ParseExport(Item.items[2], Item.items[3], m, function_names)
       IN  IF r.ok
           THEN /\ m' = r.mod
                /\ mi' = mi + 1
                /\ UNCHANGED <<pc, why>>
           ELSE /\ pc' = "panic"
                /\ why' = "export"
                /\ UNCHANGED <<m, mi>>
    /\ UNCHANGED <<script, ti, function_names, builder, module, asserts, runVars>>

\* import, type, memory, table and start forms are accepted and ignored
IgnoredForm ==
    /\ AtItem /\ IsIgnoredForm(Item)
    /\ mi' = mi + 1
    /\ UNCHANGED <<script, pc, why, ti, parseVars, runVars>>

\* any other module item: panic!("unhandled inner")
UnhandledInner ==
    /\ AtItem
    /\ ~IsForm(Item, "func") /\ ~IsFormN(Item, "export", 2) /\ ~IsIgnoredForm(Item)
    /\ pc' = "panic"
    /\ why' = "unhandled inner"
    /\ UNCHANGED <<script, ti, mi, parseVars, runVars>>

\* the end of a module form: module = Some(m)
ModuleEnd ==
    /\ pc = "module" /\ mi >= Len(Cur.items)
    /\ module' = [some |-> TRUE, v |-> m]
    /\ ti' = ti + 1
    /\ pc' = "parse"
    /\ UNCHANGED <<script, why, mi, m, function_names, builder, asserts, runVars>>

\* (assert_return invoke result)
AssertReturnForm ==
    /\ AtTop /\ IsFormN(Cur, "assert_return", 2)
    /\ LET inv == parse_invoke(Cur.items[2])
           res == parse_const(Cur.items[3])
       IN  IF inv.ok /\ res.ok
           THEN /\ asserts' = Append(asserts, [kind |-> "Return",
                                               invoke |-> inv.v,
                                               result |-> res.v])
                /\ ti' = ti + 1
                /\ UNCHANGED <<pc, why>>
           ELSE /\ pc' = "panic"
                /\ why' = "assert form"
                /\ UNCHANGED <<asserts, ti>>
    /\ UNCHANGED <<script, mi, m, function_names, builder, module, runVars>>

\* (assert_trap invoke text)
AssertTrapForm ==
    /\ AtTop /\ IsFormN(Cur, "assert_trap", 2)
    /\ LET inv == parse_invoke(Cur.items[2])
       IN  IF inv.ok
           THEN /\ asserts' = Append(asserts, [kind |-> "Trap", invoke |-> inv.v])
                /\ ti' = ti + 1
                /\ UNCHANGED <<pc, why>>
           ELSE /\ pc' = "panic"
                /\ why' = "assert form"
                /\ UNCHANGED <<asserts, ti>>
    /\ UNCHANGED <<script, mi, m, function_names, builder, module, runVars>>

\* assert_invalid, assert_return_nan, a bare invoke and any other form panic
UnhandledTop ==
    /\ AtTop
    /\ ~IsForm(Cur, "module")
    /\ ~IsFormN(Cur, "assert_return", 2)
    /\ ~IsFormN(Cur, "assert_trap", 2)
    /\ pc' = "panic"
    /\ why' = "unhandled"
    /\ UNCHANGED <<script, ti, mi, parseVars, runVars>>

\* the end of the script: module.unwrap(), then run_all creates the Instance
ParseEnd ==
    /\ pc = "parse" /\ ti > Len(script)
    /\ IF module.some
       THEN pc' = "run" /\ why' = why
       ELSE pc' = "panic" /\ why' = "no module"
    /\ UNCHANGED <<script, ti, mi, parseVars, runVars>>

\* the frame with the declared locals left as the previous invocation of a
\* frame of the same size had them
NewLocalsStale(arguments, local_types) ==
    IF Len(locals) = Len(arguments) + Len(local_types)
    THEN arguments \o SubSeq(locals, Len(arguments) + 1, Len(locals))
    ELSE arguments \o Tuple([i \in 1..Len(local_types) |-> ZeroValue(local_types[i])])

\* the frame with every declared local a 32-bit zero
NewLocalsUntyped(arguments, local_types) ==
    arguments \o Tuple([i \in 1..Len(local_types) |-> ZeroValue("Int32")])

\* the frame Instance::invoke starts with: the arguments in the first slots,
\* then the zero value of each declared local
NewLocals(arguments, local_types) ==
    arguments \o Tuple([i \in 1..Len(local_types) |-> ZeroValue(local_types[i])])

\* the lookup falling back to function 0 when no export has the name
InvokeTargetOrFirst(mod, inv) ==
    IF find(mod, inv.function_name).some
    THEN find(mod, inv.function_name)
    ELSE [some |-> TRUE, v |-> 0]

\* the function Invoke::run looks up: None when no export has the name
InvokeTarget(mod, inv) == find(mod, inv.function_name)

\* Invoke::run: find(name).unwrap(), then Instance::invoke sets up the frame
InvokeRun ==
    /\ pc = "run" /\ ai <= Len(asserts)
    /\ LET inv == asserts[ai].invoke
           f == InvokeTarget(module.v, inv)
       IN  IF ~f.some
           THEN /\ pc' = "panic"
                /\ why' = "find"
                /\ UNCHANGED <<func, args, stack, locals, ip, result, trace>>
           ELSE IF ~ArgsMatch(inv.arguments, module.v.functions[f.v + 1].param_types)
           THEN /\ pc' = "panic"
                /\ why' = "signature"
                /\ UNCHANGED <<func, args, stack, locals, ip, result, trace>>
           ELSE /\ pc' = "exec"
                /\ why' = why
                /\ func' = f.v
                /\ args' = inv.arguments
                /\ stack' = <<>>
                /\ locals' = NewLocals(inv.arguments,
                                       module.v.code[f.v + 1].local_types)
                /\ ip' = 1
                /\ result' = Pending
                /\ trace' = <<>>
    /\ UNCHANGED <<script, ti, mi, parseVars, ai, before, earlier, hist>>

Ops == module.v.code[func + 1].ops

Finished(res) == [func |-> func, args |-> args, result |-> res]

\* one instruction of the function body
Step ==
    /\ pc = "exec" /\ ip <= Len(Ops)
    /\ LET r == ExecOp(Ops[ip], stack, locals)
       IN  /\ stack' = r.stack
           /\ locals' = r.locals
           /\ trace' = Append(trace, ip)
           /\ before' = [stack |-> stack, locals |-> locals]
           /\ earlier' = before
           /\ CASE r.kind = "next" ->
                    /\ ip' = ip + 1
                    /\ UNCHANGED <<pc, why, result, hist>>
                [] r.kind = "return" ->
                    /\ result' = r.result
                    /\ hist' = Append(hist, Finished(r.result))
                    /\ pc' = "check"
                    /\ UNCHANGED <<why, ip>>
                [] r.kind = "trap" ->
                    /\ result' = Trap
                    /\ hist' = Append(hist, Finished(Trap))
                    /\ pc' = "check"
                    /\ UNCHANGED <<why, ip>>
                [] r.kind = "abort" ->
                    /\ pc' = "panic"
                    /\ why' = "engine"
                    /\ UNCHANGED <<result, hist, ip>>
    /\ UNCHANGED <<script, ti, mi, parseVars, ai, func, args>>

\* the end of the instruction sequence reported as a trap
FallOffTraps ==
    /\ pc = "exec" /\ ip > Len(Ops)
    /\ result' = Trap
    /\ hist' = Append(hist, Finished(Trap))
    /\ pc' = "check"
    /\ UNCHANGED <<script, why, ti, mi, parseVars, ai, func, args, stack,
                   locals, ip, trace, before, earlier>>

\* the end of the instruction sequence: the invocation returns no value
FallOff ==
    /\ pc = "exec" /\ ip > Len(Ops)
    /\ result' = ValueNone
    /\ hist' = Append(hist, Finished(ValueNone))
    /\ pc' = "check"
    /\ UNCHANGED <<script, why, ti, mi, parseVars, ai, func, args, stack,
                   locals, ip, trace, before, earlier>>

\* the result Assert::run requires of the invocation
\* an assert whose failure does not stop the run
AssertCheckGoesOn ==
    /\ pc = "check"
    /\ pc' = "run" /\ ai' = ai + 1 /\ why' = why
    /\ UNCHANGED <<script, ti, mi, parseVars, func, args, stack, locals, ip,
                   result, trace, before, earlier, hist>>

Expected(a) == IF a.kind = "Return" THEN ValueSome(a.result) ELSE Trap

\* the assert_eq! of Assert::run, then the next assert of run_all
AssertCheck ==
    /\ pc = "check"
    /\ IF result = Expected(asserts[ai])
       THEN pc' = "run" /\ ai' = ai + 1 /\ why' = why
       ELSE pc' = "panic" /\ ai' = ai /\ why' = "assert_eq"
    /\ UNCHANGED <<script, ti, mi, parseVars, func, args, stack, locals, ip,
                   result, trace, before, earlier, hist>>

\* run_all has run every assert
RunEnd ==
    /\ pc = "run" /\ ai > Len(asserts)
    /\ pc' = "done"
    /\ UNCHANGED <<script, why, ti, mi, parseVars, runVars>>

Next ==
    \/ ModuleBegin \/ FuncForm \/ ExportForm \/ IgnoredForm \/ UnhandledInner
    \/ ModuleEnd \/ AssertReturnForm \/ AssertTrapForm \/ UnhandledTop
    \/ ParseEnd \/ InvokeRun \/ Step \/ FallOff \/ AssertCheck \/ RunEnd

(***************************************************************************)
(* The scripts the model runs: the forms TestCase::parse reads.            *)
(***************************************************************************)
Form(head, rest) == List(<<Identifier(head)>> \o rest)

Param(id, ty) == Form("param", <<Variable(id), Identifier(ty)>>)

Local(id, ty) == Form("local", <<Variable(id), Identifier(ty)>>)

Result(ty) == Form("result", <<Identifier(ty)>>)

Get(id) == Form("get_local", <<Variable(id)>>)

Set(id) == Form("set_local", <<Variable(id)>>)

Tee(id) == Form("tee_local", <<Variable(id)>>)

Func(name, items) == Form("func", <<Variable(name)>> \o items)

Export(name, id) == Form("export", <<String(name), Variable(id)>>)

Const(ty, text) ==
    Form(IF ty = "i32" THEN "i32.const" ELSE "i64.const", <<Identifier(text)>>)

InvokeOf(name, consts) == Form("invoke", <<String(name)>> \o consts)

AssertReturn(inv, res) == Form("assert_return", <<inv, res>>)

AssertTrap(inv) == Form("assert_trap", <<inv, String("trap")>>)

\* the integer literals the scripts pass as arguments
Lits(ty) ==
    IF ty = "i32"
    THEN {"0", "1", "2", "7", "10", "-1", "-7", "-2147483648", "2147483647"}
    ELSE {"0", "1", "2", "7", "10", "-1", "-7", "-9223372036854775808",
          "0xffffffff"}

\* (func $f (param $a ty) (param $b ty) (result ty)
\*    (return (op (get_local $a) (get_local $b))))
BinFunc(op, ty) ==
    Func("$f", <<Param("$a", ty), Param("$b", ty), Result(ty),
                 Form("return", <<Form(op, <<Get("$a"), Get("$b")>>)>>)>>)

BinModule(op, ty) == Form("module", <<BinFunc(op, ty), Export("f", "$f")>>)

\* the binary instructions the scripts exercise, with their operand type
BinInstrs ==
    {<<"i32.div_u", "i32">>, <<"i32.div_s", "i32">>,
     <<"i64.div_u", "i64">>, <<"i64.div_s", "i64">>}

\* one binary function, exported, and one assert on a pair of literals
BinScripts ==
    UNION {
      UNION {
        LET inv == InvokeOf("f", <<Const(o[2], x), Const(o[2], y)>>)
        IN  {<<BinModule(o[1], o[2]), AssertTrap(inv)>>,
             <<BinModule(o[1], o[2]), AssertReturn(inv, Const(o[2], "3"))>>}
        : x \in Lits(o[2]), y \in Lits(o[2])}
      : o \in BinInstrs}

\* the wrapping arithmetic instructions, with their operand type
ArithInstrs ==
    {<<"i32.add", "i32">>, <<"i32.sub", "i32">>, <<"i32.mul", "i32">>,
     <<"i64.add", "i64">>, <<"i64.sub", "i64">>, <<"i64.mul", "i64">>}

\* one arithmetic function, exported, and one assert on a pair of literals:
\* an assert_trap, or an assert_return of a literal
ArithScripts ==
    UNION {
      UNION {
        LET inv == InvokeOf("f", <<Const(o[2], x), Const(o[2], y)>>)
        IN  {<<BinModule(o[1], o[2]), AssertTrap(inv)>>}
            \cup {<<BinModule(o[1], o[2]), AssertReturn(inv, Const(o[2], z))>>
                     : z \in IF x = y THEN {"0", "1", "-1"} ELSE {}}
        : x \in Lits(o[2]), y \in Lits(o[2])}
      : o \in ArithInstrs}

\* every sequence of at most n elements of S
SeqsUpTo(S, n) == UNION {{Tuple(f) : f \in [1..k -> S]} : k \in 0..n}

\* the declaration forms of the enumerated functions: two parameters, two
\* locals, and a local that reuses a parameter's name
Decls ==
    {Param("$a", "i32"), Param("$b", "i64"), Local("$c", "i32"),
     Local("$d", "i64"), Local("$a", "i32")}

\* the names a list of declaration forms declares
DeclNames(decls) == {decls[i].items[2].text : i \in 1..Len(decls)}

\* one literal 7 per param form, of the parameter's type
DeclArgs(decls) ==
    LET params == SelectSeq(decls, LAMBDA d : IsForm(d, "param"))
    IN  Tuple([i \in 1..Len(params) |-> Const(params[i].items[3].text, "7")])

\* a function of the declarations that returns one of its declared names,
\* exported and called once
DeclScripts ==
    UNION {
      {<<Form("module",
              <<Func("$f", decls \o <<Form("return", <<Get(n)>>)>>),
                Export("f", "$f")>>),
         AssertReturn(InvokeOf("f", DeclArgs(decls)), Const("i32", "7"))>>
        : n \in DeclNames(decls)}
      : decls \in SeqsUpTo(Decls, MaxDecls)}

\* the function every enumerated module starts with
DoubleFunc ==
    Func("$g", <<Param("$a", "i32"), Result("i32"),
                 Form("return", <<Form("i32.add", <<Get("$a"), Get("$a")>>)>>)>>)

\* the module items of the enumerated modules: functions under the name $f
\* and under no name, and exports of defined and undefined names
ModuleItems ==
    {Func("$f", <<Param("$a", "i32"), Result("i32"),
                  Form("return", <<Get("$a")>>)>>),
     Form("func", <<Result("i32"), Param("$a", "i32"),
                    Form("return", <<Form("i32.eqz", <<Get("$a")>>)>>)>>),
     Export("f", "$f"), Export("f", "$g"), Export("g", "$g"),
     Export("g", "$h")}

\* a module of $g and up to MaxForms of the items, then one call of "f" or
\* of "g"
ExportScripts ==
    UNION {
      {<<Form("module", <<DoubleFunc>> \o items),
         AssertReturn(InvokeOf(n, <<Const("i32", "7")>>), Const("i32", "7"))>>
        : n \in {"f", "g"}}
      : items \in SeqsUpTo(ModuleItems, MaxForms)}

\* a module whose export "f" returns its argument, and one whose export "f"
\* returns twice its argument
IdModule ==
    Form("module", <<Func("$f", <<Param("$a", "i32"), Result("i32"),
                                  Form("return", <<Get("$a")>>)>>),
                     Export("f", "$f")>>)

TwiceModule == Form("module", <<DoubleFunc, Export("f", "$g")>>)

\* scripts of two module forms with asserts between and behind them
TwoModuleScripts ==
    LET inv == InvokeOf("f", <<Const("i32", "7")>>)
        a7 == AssertReturn(inv, Const("i32", "7"))
        a14 == AssertReturn(inv, Const("i32", "14"))
    IN  {<<IdModule, a7, TwiceModule>>,
         <<IdModule, a14, TwiceModule>>,
         <<IdModule, TwiceModule, a14>>,
         <<IdModule, a7, TwiceModule, a14>>,
         <<TwiceModule, a14, IdModule, a7>>}

\* the literal tokens of the literal scripts: decimal and hexadecimal, at and
\* around the ends of the 32-bit and 64-bit ranges
LitTexts ==
    {"0", "1", "7", "10", "-1", "-7", "0x10", "2147483647", "2147483648",
     "-2147483648", "-2147483649", "4294967295", "4294967296", "0xffffffff",
     "0x100000000", "0x80000000", "-9223372036854775808",
     "-9223372036854775809", "18446744073709551615", "18446744073709551616",
     "0xffffffffffffffff", "0x10000000000000000"}

\* a module whose export "f" returns its argument of type ty
LitModule(ty) ==
    Form("module", <<Func("$f", <<Param("$a", ty), Result(ty),
                                  Form("return", <<Get("$a")>>)>>),
                     Export("f", "$f")>>)

\* one call of that function with a literal as the argument
LitScripts ==
    {<<LitModule(ty),
       AssertReturn(InvokeOf("f", <<Const(ty, text)>>), Const(ty, "0"))>>
       : ty \in {"i32", "i64"}, text \in LitTexts}

\* a function under no name whose first item declares its parameter
UnnamedScript ==
    <<Form("module", <<Form("func", <<Param("$a", "i32"), Result("i32"),
                                      Form("return", <<Get("$a")>>)>>)>>)>>

\* functions on locals: $set stores with set_local, $tee with tee_local,
\* $dirty leaves two values on the stack and a local written, $after has
\* instructions behind its return, $peek returns what its local held at the
\* start and then writes it, $f traps on a zero divisor, $fall has no return
LocalModule ==
    Form("module",
      <<Func("$set", <<Param("$a", "i32"), Local("$x", "i32"), Result("i32"),
                       Get("$a"), Set("$x"), Form("return", <<Get("$x")>>)>>),
        Func("$tee", <<Param("$a", "i32"), Local("$x", "i32"), Result("i32"),
                       Get("$a"), Tee("$x"), Set("$x"), Get("$a"), Tee("$x"),
                       Form("return", <<>>)>>),
        Func("$dirty", <<Param("$a", "i32"), Param("$b", "i32"),
                         Local("$x", "i32"), Local("$y", "i64"), Result("i32"),
                         Get("$a"), Get("$b"), Set("$x"), Get("$a"),
                         Form("return", <<Get("$b")>>)>>),
        Func("$after", <<Param("$a", "i32"), Param("$b", "i32"),
                         Local("$x", "i32"), Result("i32"),
                         Form("return", <<Get("$a")>>),
                         Get("$b"), Set("$x"), Form("return", <<Get("$b")>>)>>),
        Func("$peek", <<Param("$a", "i32"), Local("$y", "i64"),
                        Local("$x", "i32"), Result("i32"),
                        Get("$x"), Get("$a"), Set("$x"),
                        Form("return", <<Form("nop", <<>>)>>)>>),
        BinFunc("i32.div_s", "i32"),
        Func("$fall", <<Param("$a", "i32"), Local("$x", "i32"), Result("i32"),
                        Get("$a"), Tee("$x"), Form("nop", <<>>)>>),
        Export("set", "$set"), Export("tee", "$tee"),
        Export("dirty", "$dirty"), Export("after", "$after"),
        Export("peek", "$peek"), Export("div", "$f"),
        Export("fall", "$fall")>>)

C32(text) == Const("i32", text)

\* asserts on LocalModule that pass, so that run_all goes on to the next one
PassingAsserts ==
    {AssertReturn(InvokeOf("set", <<C32("7")>>), C32("7")),
     AssertReturn(InvokeOf("dirty", <<C32("7"), C32("2")>>), C32("2")),
     AssertReturn(InvokeOf("peek", <<C32("7")>>), C32("0")),
     AssertReturn(InvokeOf("div", <<C32("7"), C32("2")>>), C32("3")),
     AssertTrap(InvokeOf("div", <<C32("7"), C32("0")>>))}

\* further asserts on LocalModule, run first or after one passing assert:
\* some pass, some have a wrong expectation, call a function that returns no
\* value, name no export, or pass arguments that do not match the signature
OtherAsserts ==
    {AssertReturn(InvokeOf("after", <<C32("7"), C32("2")>>), C32("7")),
     AssertReturn(InvokeOf("dirty", <<C32("2"), C32("-1")>>), C32("0xffffffff")),
     AssertReturn(InvokeOf("set", <<C32("7")>>), C32("3")),
     AssertTrap(InvokeOf("set", <<C32("7")>>)),
     AssertReturn(InvokeOf("tee", <<C32("7")>>), C32("7")),
     AssertReturn(InvokeOf("div", <<C32("7"), C32("0")>>), C32("0")),
     AssertTrap(InvokeOf("fall", <<C32("7")>>)),
     AssertReturn(InvokeOf("fall", <<C32("7")>>), C32("7")),
     AssertTrap(InvokeOf("nope", <<C32("7")>>)),
     AssertReturn(InvokeOf("nope", <<>>), C32("7")),
     AssertReturn(InvokeOf("set", <<>>), C32("0")),
     AssertReturn(InvokeOf("set", <<Const("i64", "7")>>), C32("7"))}

\* LocalModule and up to MaxAsserts passing asserts, or at most one passing
\* assert and one of the others
LocalScripts ==
    {<<LocalModule>> \o as : as \in SeqsUpTo(PassingAsserts, MaxAsserts)}
    \cup {<<LocalModule>> \o as \o <<f>> :
            as \in SeqsUpTo(PassingAsserts, 1), f \in OtherAsserts}

\* LocalModule, one of the other asserts, and a passing assert behind it
AbortScripts ==
    {<<LocalModule, f, p>> : f \in OtherAsserts, p \in PassingAsserts}

\* a function that stores its argument into one of two locals and returns
\* that local, called with a literal
StoreScripts ==
    UNION {
      {<<Form("module",
              <<Func("$f", <<Param("$a", ty), Local("$x", ty), Local("$y", ty),
                             Result(ty), Get("$a"), Set(t),
                             Form("return", <<Get(t)>>)>>),
                Export("f", "$f")>>),
         AssertReturn(InvokeOf("f", <<Const(ty, x)>>), Const(ty, x))>>
        : x \in Lits(ty), t \in {"$x", "$y"}}
      : ty \in {"i32", "i64"}}

\* a function that reads its argument, has one instruction without
\* semantics as the operand of its return, and is called with 7
NopScripts ==
    {<<Form("module",
            <<Func("$f", <<Param("$a", "i32"), Result("i32"), Get("$a"),
                           Form("return", <<Form(n, <<Get("$a")>>)>>)>>),
              Export("f", "$f")>>),
       AssertReturn(InvokeOf("f", <<C32("7")>>), C32("7"))>>
      : n \in NopNames}

\* the scenario "SetLocal($a, 5), GetLocal($a), Return": with the literal as
\* the operand of set_local, and with the literal as an instruction of its own
SetLiteralNested ==
    <<Form("module",
        <<Func("$f", <<Local("$a", "i32"), Result("i32"),
                       Form("set_local", <<Variable("$a"), C32("5")>>),
                       Form("return", <<Get("$a")>>)>>),
          Export("f", "$f")>>),
      AssertReturn(InvokeOf("f", <<>>), C32("5"))>>

SetLiteralFlat ==
    <<Form("module",
        <<Func("$f", <<Local("$a", "i32"), Result("i32"),
                       C32("5"), Set("$a"), Form("return", <<Get("$a")>>)>>),
          Export("f", "$f")>>),
      AssertReturn(InvokeOf("f", <<>>), C32("5"))>>

\* a return form with two operand expressions
ReturnTwoScript ==
    <<Form("module",
        <<Func("$f", <<Param("$a", "i32"),
                       Form("return", <<Get("$a"), Get("$a")>>)>>)>>)>>

\* scripts of forms the parser ignores or rejects, and functions that end
\* without a return
OtherScripts ==
    {<<Form("module", <<Form("memory", <<Identifier("1")>>),
                        Form("start", <<Variable("$f")>>),
                        Form("type", <<Variable("$t")>>),
                        Form("table", <<>>)>>)>>,
     <<Form("module", <<Form("data", <<>>)>>)>>,
     <<Form("module", <<Func("$f", <<Form("br", <<>>)>>)>>)>>,
     <<Form("module", <<Func("$f", <<Param("$a", "i31")>>)>>)>>,
     ReturnTwoScript,
     UnnamedScript,
     <<Form("module", <<>>), Form("assert_invalid", <<Form("module", <<>>),
                                                      String("bad")>>)>>,
     <<Form("module", <<>>), Form("assert_return_nan",
                                  <<InvokeOf("f", <<>>)>>)>>,
     <<Form("module", <<>>), InvokeOf("f", <<>>)>>,
     <<AssertTrap(InvokeOf("f", <<>>))>>,
     <<Form("module", <<>>),
       AssertReturn(InvokeOf("f", <<Const("i32", "4294967296")>>), C32("0"))>>,
     <<Form("module", <<>>), AssertTrap(Form("invoke", <<Identifier("f")>>))>>,
     <<Form("module", <<Func("$f", <<Param("$a", "i32"), Get("$a"),
                                    Form("nop", <<>>)>>),
                        Export("f", "$f")>>),
       AssertReturn(InvokeOf("f", <<C32("7")>>), C32("7"))>>,
     <<Form("module", <<Func("$f", <<>>), Export("f", "$f")>>),
       Form("module", <<Func("$g", <<Param("$a", "i32"), Result("i32"),
                                    Form("return", <<Get("$a")>>)>>),
                        Export("g", "$g")>>),
       AssertReturn(InvokeOf("g", <<C32("7")>>), C32("7"))>>}

Scripts ==
    BinScripts \cup ArithScripts \cup DeclScripts \cup ExportScripts
    \cup LocalScripts \cup AbortScripts \cup TwoModuleScripts \cup LitScripts
    \cup StoreScripts \cup NopScripts
    \cup {SetLiteralNested, SetLiteralFlat} \cup OtherScripts

Init ==
    /\ script \in Scripts
    /\ pc = "parse"
    /\ why = ""
    /\ ti = 1
    /\ mi = 1
    /\ m = NewModule
    /\ function_names = <<>>
    /\ builder = NewBuilder
    /\ module = [some |-> FALSE]
    /\ asserts = <<>>
    /\ ai = 1
    /\ func = 0
    /\ args = <<>>
    /\ stack = <<>>
    /\ locals = <<>>
    /\ ip = 1
    /\ result = Pending
    /\ trace = <<>>
    /\ before = [stack |-> <<>>, locals |-> <<>>]
    /\ earlier = [stack |-> <<>>, locals |-> <<>>]
    /\ hist = <<>>

Spec == Init /\ [][Next]_vars

\* The interpreter's loop over the instructions is sequential and never waits:
\* an invocation that has started keeps taking its next step.  This is weak
\* fairness of Next during an invocation; a step is always possible there
\* (ip <= Len(Ops) + 1, which C13 checks), so it is written without ENABLED.
FairSpec == Spec /\ ([]<>(pc # "exec") \/ []<><<Next>>_vars)

(***************************************************************************)
(* Properties.                                                             *)
(***************************************************************************)
\* an invocation is under way or has just ended, and has executed an
\* instruction
Executed ==
    /\ \/ pc \in {"exec", "check"}
       \/ pc = "panic" /\ why \in {"engine", "assert_eq"}
    /\ trace # <<>>

\* the instruction executed last
LastOp == Ops[trace[Len(trace)]]

I32(bytes) == [ty |-> "Int32", bytes |-> bytes]

\* the body the lowering gives (return (i32.div_u (get_local $a) (get_local $b)))
DivUBody == <<GetLocal(0), GetLocal(1), IntBin("Int32", "DivU"), Return(TRUE)>>

\* the script that calls the i32.div_u function with (10, 0) under assert_trap
DivByZeroScript ==
    <<BinModule("i32.div_u", "i32"),
      AssertTrap(InvokeOf("f", <<C32("10"), C32("0")>>))>>

\* the latest instruction was a DivS or DivU whose right operand was zero, or
\* a DivS of the minimum value by -1
DivTrapCase ==
    /\ Executed
    /\ LastOp.op = "IntBin" /\ LastOp.bop \in {"DivS", "DivU"}
    /\ Len(before.stack) >= 2
    /\ LET a == before.stack[Len(before.stack) - 1]
           b == before.stack[Len(before.stack)]
       IN  /\ a.ty = LastOp.ty /\ b.ty = LastOp.ty
           /\ \/ b.bytes \in {<<0, 0, 0, 0>>, <<0, 0, 0, 0, 0, 0, 0, 0>>}
              \/ /\ LastOp.bop = "DivS"
                 /\ a.bytes \in {<<0, 0, 0, 128>>, <<0, 0, 0, 0, 0, 0, 0, 128>>}
                 /\ \A i \in 1..Len(b.bytes) : b.bytes[i] = 255

\* C1: an invocation that executes DivS or DivU with a zero right operand, or
\* DivS of the minimum value by -1, on Int32 or Int64 operands, ends there
\* with the result Trap, handed back as the invocation's result and not as a
\* crash; the function lowered from (return (i32.div_u $a $b)) has the body
\* GetLocal(0), GetLocal(1), IntBin(Int32, DivU), Return{has_arg: true} and,
\* called with (10, 0) under assert_trap, passes the assert.
C1_DivisionTraps ==
    /\ DivTrapCase =>
          /\ result = Trap
          /\ pc # "exec" /\ why # "engine"
          /\ hist # <<>>
          /\ hist[Len(hist)] = [func |-> func, args |-> args, result |-> Trap]
    /\ script = DivByZeroScript =>
          /\ pc # "panic"
          /\ module.some => module.v.code[1].ops = DivUBody
          /\ pc = "done" =>
                hist = <<[func |-> 0,
                          args |-> <<I32(<<10, 0, 0, 0>>), I32(<<0, 0, 0, 0>>)>>,
                          result |-> Trap]>>

\* the (10, 0) call has trapped in DivU and the assert_trap has passed
C1_Witness ==
    /\ script = DivByZeroScript
    /\ pc = "done"
    /\ result = Trap
    /\ LastOp = IntBin("Int32", "DivU")
    /\ before.stack = <<I32(<<10, 0, 0, 0>>), I32(<<0, 0, 0, 0>>)>>

\* the script that sets a local to the literal 5 and returns it
SetLiteralScript == script \in {SetLiteralNested, SetLiteralFlat}

\* C2: the function whose body sets local $a to the literal 5, reads $a and
\* returns, called with no arguments, returns Value(Some(Int32(5))): the
\* script is parsed and run without a panic and the invocation's result is
\* the Int32 value 5.
C2_SetLiteralReturnsFive ==
    SetLiteralScript =>
        /\ pc # "panic"
        /\ pc = "done" => result = ValueSome(I32(<<5, 0, 0, 0>>))

\* the parser has panicked in the func form of the nested scenario, at the
\* set_local with two operands
C2_Witness ==
    /\ script = SetLiteralNested
    /\ pc = "panic" /\ why = "func"
    /\ mi = 1
    /\ ~module.some

\* q is the unsigned quotient of a by b: a = q * b + r with 0 <= r < b, the
\* arithmetic done in twice the width so that nothing wraps
IsUnsignedQuotient(a, b, q) ==
    LET w == 2 * Len(a)
        p == MulBytes(ZeroExtend(q, w), ZeroExtend(b, w))
    IN  /\ ~ULt(ZeroExtend(a, w), p)
        /\ ULt(SubBytes(ZeroExtend(a, w), p), ZeroExtend(b, w))

\* C3: (return (i32.div_u (get_local $a) (get_local $b))) is lowered to the
\* left operand's ops, then the right operand's ops, then the instruction:
\* GetLocal(0), GetLocal(1), IntBin(Int32, DivU), Return{has_arg: true}.
\* IntBin takes the second-from-top value as its left operand and leaves the
\* quotient in place of the two operands, so that the call with (a, b), b not
\* zero, returns Value(Some(Int32(a divided by b, unsigned))), and the call
\* with (7, 2) returns 3.
C3_DivULowering ==
    script[1] = BinModule("i32.div_u", "i32") =>
        /\ module.some => module.v.code[1].ops = DivUBody
        /\ (Executed /\ LastOp = IntBin("Int32", "DivU")
              /\ before.stack[2].bytes # <<0, 0, 0, 0>>) =>
              /\ pc = "exec"
              /\ Len(stack) = 1
              /\ stack[1].ty = "Int32"
              /\ IsUnsignedQuotient(before.stack[1].bytes,
                                    before.stack[2].bytes, stack[1].bytes)
        /\ \A k \in 1..Len(hist) :
              /\ hist[k].args[2].bytes # <<0, 0, 0, 0>> =>
                    /\ hist[k].result.kind = "Value"
                    /\ hist[k].result.some
                    /\ hist[k].result.v.ty = "Int32"
                    /\ IsUnsignedQuotient(hist[k].args[1].bytes,
                                          hist[k].args[2].bytes,
                                          hist[k].result.v.bytes)
              /\ hist[k].args = <<I32(<<7, 0, 0, 0>>), I32(<<2, 0, 0, 0>>)>> =>
                    hist[k].result = ValueSome(I32(<<3, 0, 0, 0>>))

\* the call with (7, 2) has returned and the assert_return of 3 has passed
C3_Witness ==
    /\ script[1] = BinModule("i32.div_u", "i32")
    /\ pc = "done"
    /\ hist = <<[func |-> 0,
                 args |-> <<I32(<<7, 0, 0, 0>>), I32(<<2, 0, 0, 0>>)>>,
                 result |-> ValueSome(I32(<<3, 0, 0, 0>>))]>>

\* the parser is in a module form and the item it parsed last is a func form
FuncParsed == pc = "module" /\ mi >= 2 /\ IsForm(Cur.items[mi], "func")

\* the items of that func form, the consumed first item included
ParsedItems == Rest(Cur.items[mi])

\* the builder after the first k of those items
BuilderAfter(k) == FuncItems(NewBuilder, SubSeq(ParsedItems, 1, k), 2)

\* every return form among the items of the func form parsed last added its
\* operand's ops and then Return{has_arg} with has_arg true for one operand
\* and false for none
ReturnLowered ==
    \A k \in 2..Len(ParsedItems) :
        IsForm(ParsedItems[k], "return") =>
            LET operands == Rest(ParsedItems[k])
                pre == BuilderAfter(k - 1)
                post == BuilderAfter(k)
                added == SubSeq(post.ops, Len(pre.ops) + 1, Len(post.ops))
            IN  /\ Len(operands) \in {0, 1}
                /\ SubSeq(post.ops, 1, Len(pre.ops)) = pre.ops
                /\ SubSeq(builder.ops, 1, Len(post.ops)) = post.ops
                /\ Len(operands) = 0 => added = <<Return(FALSE)>>
                /\ Len(operands) = 1 =>
                     added = parse_op(operands[1], <<>>, pre.local_names).ops
                             \o <<Return(TRUE)>>

\* the body of $after: a return, then three instructions and another return
AfterBody ==
    <<GetLocal(0), Return(TRUE), GetLocal(1), SetLocal(2), GetLocal(1),
      Return(TRUE)>>

\* C4: the instructions of an invocation execute in sequence from the first,
\* and none executes after a Return: a Return with has_arg true ends the
\* invocation with the value on top of the stack as the result, popped, and a
\* Return with has_arg false ends it with no value.  parse_op lowers a return
\* form with one operand to the operand's ops followed by Return{has_arg:
\* true}, one without operands to Return{has_arg: false}, and rejects a
\* return form with two operands.
C4_ReturnHalts ==
    /\ Executed =>
          /\ \A k \in 1..Len(trace) : trace[k] = k
          /\ \A k \in 1..(Len(trace) - 1) : Ops[trace[k]].op # "Return"
          /\ (LastOp.op = "Return" /\ ~LastOp.has_arg) =>
                /\ pc # "exec" /\ why # "engine"
                /\ result = ValueNone
                /\ hist[Len(hist)] = Finished(ValueNone)
          /\ (LastOp.op = "Return" /\ LastOp.has_arg /\ before.stack # <<>>) =>
                /\ pc # "exec" /\ why # "engine"
                /\ result = ValueSome(before.stack[Len(before.stack)])
                /\ hist[Len(hist)] = Finished(result)
                /\ stack = SubSeq(before.stack, 1, Len(before.stack) - 1)
    /\ FuncParsed => ReturnLowered
    /\ (script[1] = LocalModule /\ module.some) =>
          module.v.code[4].ops = AfterBody
    /\ script = ReturnTwoScript =>
          /\ ~module.some /\ m.code = <<>>
          /\ pc \in {"parse", "module", "panic"}

\* the call of $after with (7, 2) has ended at its first return, the second
\* of its six instructions, with the value 7
C4_Witness ==
    /\ script[1] = LocalModule
    /\ pc = "done"
    /\ func = 3
    /\ Len(Ops) = 6
    /\ trace = <<1, 2>>
    /\ result = ValueSome(I32(<<7, 0, 0, 0>>))

\* C5: among the invocations run_all has run on its one Instance, any two of
\* the same function with the same arguments have the same result, whatever
\* ran between them.
C5_SameCallSameResult ==
    \A j \in 1..Len(hist) :
        \A k \in 1..Len(hist) :
            (hist[j].func = hist[k].func /\ hist[j].args = hist[k].args)
                => hist[j].result = hist[k].result

\* $peek was called twice with the same argument, a trapping call between
\* the two, and returned the same value both times
C5_Witness ==
    /\ Len(hist) = 3
    /\ hist[1].func = 4
    /\ hist[3].func = 4
    /\ hist[1].args = hist[3].args
    /\ hist[2].result = Trap
    /\ hist[1].result = hist[3].result
    /\ pc = "done"

\* an invocation is about to execute its first instruction
AtEntry == pc = "exec" /\ trace = <<>>

\* the frame is fresh: an empty stack, the arguments in the first slots and
\* a zero of the declared type in each declared local
FreshFrame ==
    LET declared == module.v.code[func + 1].local_types
    IN  /\ stack = <<>>
        /\ args = asserts[ai].invoke.arguments
        /\ Len(locals) = Len(args) + Len(declared)
        /\ \A i \in 1..Len(args) : locals[i] = args[i]
        /\ \A j \in 1..Len(declared) :
              /\ locals[Len(args) + j].ty = declared[j]
              /\ locals[Len(args) + j].bytes =
                    IF declared[j] \in {"Int32", "Float32"}
                    THEN <<0, 0, 0, 0>>
                    ELSE <<0, 0, 0, 0, 0, 0, 0, 0>>

\* C6: when an invocation starts, the operand stack is empty, the first
\* slots hold the arguments in order and every declared local holds the zero
\* of its declared type, whatever the previous invocation left; and no step
\* of run_all or of an invocation changes the Module.
C6_FreshFrame ==
    /\ [](AtEntry => FreshFrame)
    /\ [][(pc \in {"run", "exec", "check"}) => (module' = module)]_vars

\* $peek starts again after a call of $peek that left a value on the stack
\* and wrote its local
C6_Witness ==
    /\ AtEntry
    /\ FreshFrame
    /\ func = 4
    /\ hist # <<>>
    /\ hist[Len(hist)].func = 4
    /\ before.stack # <<>>
    /\ before.locals[3] # locals[3]

\* the names the param forms, and the local forms, of the func form parsed
\* last declare
DeclaredBy(head) ==
    {ParsedItems[k].items[2].text :
        k \in {j \in 2..Len(ParsedItems) : IsFormN(ParsedItems[j], head, 2)}}

\* the param and local forms of the func form parsed last
DeclForms ==
    {j \in 2..Len(ParsedItems) :
        IsFormN(ParsedItems[j], "param", 2) \/ IsFormN(ParsedItems[j], "local", 2)}

\* no two of them declare the same name
DeclaredOnce ==
    \A j \in DeclForms :
        \A k \in DeclForms :
            j # k => ParsedItems[j].items[2].text # ParsedItems[k].items[2].text

\* C7: in the function built from a func form whose param and local forms,
\* in whatever order, declare each name once, with P parameters and L
\* declared locals, every parameter name resolves to a slot in 0..P-1, every
\* declared-local name to a slot in P..P+L-1, and two different names never
\* to the same slot.
C7_SlotLayout ==
    (FuncParsed /\ DeclaredOnce) =>
        LET P == Len(builder.ty.param_types)
            L == Len(builder.local_types)
            names == DeclaredBy("param") \cup DeclaredBy("local")
            slot == builder.local_names
        IN  /\ \A n \in DeclaredBy("param") : slot[n] \in 0..(P - 1)
            /\ \A n \in DeclaredBy("local") : slot[n] \in P..(P + L - 1)
            /\ \A n1 \in names :
                  \A n2 \in names : n1 # n2 => slot[n1] # slot[n2]

\* the function (local $c i32) (param $a i32) (return (get_local $c)) has
\* both names on slot 0 and, called with 7, has returned 7
C7_Witness ==
    /\ script[1] =
          Form("module",
               <<Func("$f", <<Local("$c", "i32"), Param("$a", "i32"),
                              Form("return", <<Get("$c")>>)>>),
                 Export("f", "$f")>>)
    /\ pc = "done"
    /\ builder.local_names["$c"] = 0
    /\ builder.local_names["$a"] = 0
    /\ result = ValueSome(I32(<<7, 0, 0, 0>>))

\* every export of the module names a function of the module, and each
\* function has its code
ExportsInBounds(mod) ==
    /\ \A k \in 1..Len(mod.exports) :
          mod.exports[k].function_index \in 0..(Len(mod.functions) - 1)
    /\ Len(mod.functions) = Len(mod.code)

\* the names the func forms among the module items parsed so far define
DefinedSoFar ==
    {Cur.items[k].items[2].text :
        k \in {j \in 2..mi : /\ IsForm(Cur.items[j], "func")
                             /\ Len(Cur.items[j].items) >= 2
                             /\ Cur.items[j].items[2].k = "Variable"}}

\* the parser is at an export form whose id no earlier func form defines
AtUndefinedExport ==
    /\ AtItem
    /\ IsFormN(Item, "export", 2)
    /\ Item.items[3].text \notin DefinedSoFar

\* C8: while TestCase::parse builds a module and afterwards, every export
\* entry has a function index below the number of functions, and the
\* function-type list and the code list have the same length; the export
\* form of a name that no earlier func form of the module defines makes the
\* parser panic and adds no entry.
C8_ExportsInBounds ==
    /\ [](ExportsInBounds(m) /\ (module.some => ExportsInBounds(module.v)))
    /\ [][AtUndefinedExport => (pc' = "panic" /\ m' = m /\ module' = module)]_vars

\* the parser has panicked at an export of an undefined name, after an
\* export of a defined one
C8_Witness ==
    /\ pc = "panic" /\ why = "export"
    /\ Item.items[3].text \notin DefinedSoFar
    /\ Len(m.exports) >= 1
    /\ Len(m.functions) >= 2

\* the script has one module form, its first form
OneModule ==
    /\ IsForm(script[1], "module")
    /\ \A k \in 2..Len(script) : ~IsForm(script[k], "module")

\* the export forms of that module form, in the order written
ExportForms ==
    SelectSeq(Rest(script[1]), LAMBDA s : IsFormN(s, "export", 2))

\* the name the assert run_all is at calls
Called == asserts[ai].invoke.function_name

\* the positions in the export table of the entries with the name called
Matches ==
    {k \in 1..Len(module.v.exports) :
        module.v.exports[k].function_name = Called}

\* C9: the export table lists the export forms in the order written; an
\* invocation runs the function of the first entry with the name called,
\* also when later entries have the same name; and when no entry has the
\* name, Invoke::run panics at the lookup, no invocation takes place and no
\* result, Trap or other, is recorded for the call.
C9_FirstExportOrPanic ==
    /\ (OneModule /\ module.some) =>
          /\ Len(module.v.exports) = Len(ExportForms)
          /\ \A k \in 1..Len(ExportForms) :
                module.v.exports[k].function_name = ExportForms[k].items[2].text
    /\ (pc \in {"exec", "check"}
        \/ (pc = "panic" /\ why \in {"signature", "engine", "assert_eq"})) =>
          /\ Matches # {}
          /\ pc # "panic" \/ why # "signature" =>
                \E k \in Matches :
                    /\ \A j \in Matches : k <= j
                    /\ func = module.v.exports[k].function_index
    /\ (pc = "run" /\ ai <= Len(asserts)) => Len(hist) = ai - 1
    /\ (pc = "panic" /\ why = "find") =>
          /\ Matches = {}
          /\ Len(hist) = ai - 1

\* two exports have the name called, of different functions, and the
\* invocation has run the function of the first
C9_Witness ==
    /\ pc = "check"
    /\ \E j \in Matches :
          \E k \in Matches :
              /\ j < k
              /\ \A i \in Matches : j <= i
              /\ module.v.exports[j].function_index
                    # module.v.exports[k].function_index
              /\ func = module.v.exports[j].function_index

\* the bodies of $set and $tee
SetBody == <<GetLocal(0), SetLocal(1), GetLocal(1), Return(TRUE)>>

TeeBody ==
    <<GetLocal(0), TeeLocal(1), SetLocal(1), GetLocal(0), TeeLocal(1),
      Return(FALSE)>>

\* C10: tee_local is lowered to TeeLocal and set_local to SetLocal; executed
\* on a stack of at least one value, both store the top value into their slot
\* and change no other slot, TeeLocal leaves the stack as it was and SetLocal
\* leaves it without its top value.
C10_TeeKeepsSetPops ==
    /\ (script[1] = LocalModule /\ module.some) =>
          /\ module.v.code[1].ops = SetBody
          /\ module.v.code[2].ops = TeeBody
    /\ (Executed /\ LastOp.op \in {"TeeLocal", "SetLocal"}
          /\ before.stack # <<>>) =>
          /\ why # "engine"
          /\ locals = [before.locals EXCEPT
                         ![LastOp.slot + 1] = before.stack[Len(before.stack)]]
          /\ LastOp.op = "TeeLocal" => stack = before.stack
          /\ LastOp.op = "SetLocal" =>
                /\ Len(stack) = Len(before.stack) - 1
                /\ \A i \in 1..Len(stack) : stack[i] = before.stack[i]

\* $tee has just executed its second TeeLocal, on a stack of one value
C10_Witness ==
    /\ script[1] = LocalModule
    /\ pc = "exec"
    /\ trace = <<1, 2, 3, 4, 5>>
    /\ LastOp = TeeLocal(1)
    /\ stack = before.stack
    /\ Len(stack) = 1

\* the instruction executed before the latest
PrevOp == Ops[trace[Len(trace) - 1]]

\* no instruction executed before the latest wrote the slot
Unwritten(slot) ==
    \A k \in 1..(Len(trace) - 1) :
        ~(Ops[trace[k]].op \in {"SetLocal", "TeeLocal"}
          /\ Ops[trace[k]].slot = slot)

\* the body of a function of StoreScripts that stores into $x, and into $y
StoreBody(slot) ==
    <<GetLocal(0), SetLocal(slot), GetLocal(slot), Return(TRUE)>>

\* C11: get_local and set_local of a name are lowered to GetLocal and
\* SetLocal of the name's slot.  A GetLocal executed right after a SetLocal
\* of the same slot pushes the value that SetLocal took from the top of the
\* stack; a GetLocal of a parameter slot that no instruction has written
\* pushes the argument bound to it; in both cases the rest of the stack and
\* every local slot stay as they were.
C11_GetAfterSet ==
    /\ (script \in StoreScripts /\ module.some) =>
          module.v.code[1].ops \in {StoreBody(1), StoreBody(2)}
    /\ (script \in StoreScripts /\ module.some
          /\ script[1].items[2].items[7] = Set("$y")) =>
          module.v.code[1].ops = StoreBody(2)
    /\ (Executed /\ Len(trace) >= 2 /\ LastOp.op = "GetLocal"
          /\ PrevOp = SetLocal(LastOp.slot) /\ earlier.stack # <<>>) =>
          /\ why # "engine"
          /\ stack = Append(before.stack, earlier.stack[Len(earlier.stack)])
          /\ locals = before.locals
    /\ (Executed /\ LastOp.op = "GetLocal" /\ LastOp.slot < Len(args)
          /\ Unwritten(LastOp.slot)) =>
          /\ why # "engine"
          /\ stack = Append(before.stack, args[LastOp.slot + 1])
          /\ locals = before.locals

\* the function that stores into $y has read back the 64-bit minimum it
\* stored
C11_Witness ==
    /\ script \in StoreScripts
    /\ pc = "exec"
    /\ trace = <<1, 2, 3>>
    /\ LastOp = GetLocal(2)
    /\ PrevOp = SetLocal(2)
    /\ stack = <<[ty |-> "Int64", bytes |-> <<0, 0, 0, 0, 0, 0, 0, 128>>]>>
    /\ earlier.stack = stack

\* one instruction of each kind that has no semantics in the engine
Placeholders ==
    {"unreachable", "drop", "end", "i32.const", "i64.const", "f32.const",
     "f64.const", "call", "callindirect", "callimport", "i32.load",
     "i64.load8u", "f64.load", "i32.store", "i64.store32", "f32.store",
     "current_memory", "grow_memory", "f32.add", "f64.sqrt", "f64.ge",
     "i32.trunc_s/f32", "i32.wrap/i64", "i64.extend_u/i32"}

Ended == pc = "check" \/ (pc = "panic" /\ why = "assert_eq")

\* it ended behind the last instruction of the body
FellOff == Ended /\ ip > Len(Ops)

Limb(a, j) == a[2 * j - 1] + 256 * a[2 * j]

LimbBytes(n) == <<n % 256, (n \div 256) % 256>>

\* the exact sum of a and b modulo 2^(8 * Len(a)), by 16-bit limbs with the
\* carries written out
RefAdd(a, b) ==
    LET s1 == Limb(a, 1) + Limb(b, 1)
        s2 == Limb(a, 2) + Limb(b, 2) + (s1 \div 65536)
        s3 == Limb(a, 3) + Limb(b, 3) + (s2 \div 65536)
        s4 == Limb(a, 4) + Limb(b, 4) + (s3 \div 65536)
    IN  IF Len(a) = 4
        THEN LimbBytes(s1 % 65536) \o LimbBytes(s2 % 65536)
        ELSE LimbBytes(s1 % 65536) \o LimbBytes(s2 % 65536)
             \o LimbBytes(s3 % 65536) \o LimbBytes(s4 % 65536)

RECURSIVE TimesSmall(_, _, _)
\* a times the k-bit number n, by doubling and adding
TimesSmall(a, n, k) ==
    IF k = 0 THEN ZeroBytes(Len(a))
    ELSE LET h == TimesSmall(a, n \div 2, k - 1)
         IN  IF n % 2 = 1 THEN RefAdd(RefAdd(h, h), a) ELSE RefAdd(h, h)

RECURSIVE RefMulFrom(_, _, _)
\* a times the bytes i.. of b, the higher bytes first
RefMulFrom(a, b, i) ==
    IF i > Len(b) THEN ZeroBytes(Len(a))
    ELSE RefAdd(<<0>> \o SubSeq(RefMulFrom(a, b, i + 1), 1, Len(a) - 1),
                TimesSmall(a, b[i], 8))

\* the exact product of a and b modulo 2^(8 * Len(a))
RefMul(a, b) == RefMulFrom(a, b, 1)

\* r is the exact result of the arithmetic instruction `name` on (a, b),
\* modulo 2^32 or 2^64; the difference is the number that, added to b, gives a
IsArith(name, a, b, r) ==
    CASE name \in {"i32.add", "i64.add"} -> r = RefAdd(a, b)
      [] name \in {"i32.sub", "i64.sub"} -> RefAdd(r, b) = a
      [] name \in {"i32.mul", "i64.mul"} -> r = RefMul(a, b)

\* the script's module is one arithmetic function
ArithCase == \E o \in ArithInstrs : script[1] = BinModule(o[1], o[2])

\* the instruction and the value type of that function
ArithName == (CHOOSE o \in ArithInstrs : script[1] = BinModule(o[1], o[2]))[1]

ArithType == IF ArithName \in {"i32.add", "i32.sub", "i32.mul"}
             THEN "Int32" ELSE "Int64"

I64(bytes) == [ty |-> "Int64", bytes |-> bytes]

\* results worked out by hand: MAX + 1 = MIN, 0 - 1 = -1, -1 * -1 = 1,
\* MIN * 2 = 0, and the same at 64 bits
KnownArith ==
    {<<"i32.add", I32(<<255, 255, 255, 127>>), I32(<<1, 0, 0, 0>>),
       I32(<<0, 0, 0, 128>>)>>,
     <<"i32.add", I32(<<255, 255, 255, 255>>), I32(<<1, 0, 0, 0>>),
       I32(<<0, 0, 0, 0>>)>>,
     <<"i32.sub", I32(<<0, 0, 0, 0>>), I32(<<1, 0, 0, 0>>),
       I32(<<255, 255, 255, 255>>)>>,
     <<"i32.sub", I32(<<0, 0, 0, 128>>), I32(<<1, 0, 0, 0>>),
       I32(<<255, 255, 255, 127>>)>>,
     <<"i32.mul", I32(<<255, 255, 255, 255>>), I32(<<255, 255, 255, 255>>),
       I32(<<1, 0, 0, 0>>)>>,
     <<"i32.mul", I32(<<0, 0, 0, 128>>), I32(<<2, 0, 0, 0>>),
       I32(<<0, 0, 0, 0>>)>>,
     <<"i32.mul", I32(<<255, 255, 255, 127>>), I32(<<255, 255, 255, 127>>),
       I32(<<1, 0, 0, 0>>)>>,
     <<"i32.mul", I32(<<7, 0, 0, 0>>), I32(<<10, 0, 0, 0>>),
       I32(<<70, 0, 0, 0>>)>>,
     <<"i64.add", I64(<<255, 255, 255, 255, 0, 0, 0, 0>>),
       I64(<<1, 0, 0, 0, 0, 0, 0, 0>>), I64(<<0, 0, 0, 0, 1, 0, 0, 0>>)>>,
     <<"i64.add", I64(<<255, 255, 255, 255, 255, 255, 255, 255>>),
       I64(<<1, 0, 0, 0, 0, 0, 0, 0>>), I64(<<0, 0, 0, 0, 0, 0, 0, 0>>)>>,
     <<"i64.sub", I64(<<0, 0, 0, 0, 0, 0, 0, 128>>),
       I64(<<1, 0, 0, 0, 0, 0, 0, 0>>),
       I64(<<255, 255, 255, 255, 255, 255, 255, 127>>)>>,
     <<"i64.mul", I64(<<255, 255, 255, 255, 0, 0, 0, 0>>),
       I64(<<255, 255, 255, 255, 0, 0, 0, 0>>),
       I64(<<1, 0, 0, 0, 254, 255, 255, 255>>)>>,
     <<"i64.mul", I64(<<0, 0, 0, 0, 0, 0, 0, 128>>),
       I64(<<2, 0, 0, 0, 0, 0, 0, 0>>), I64(<<0, 0, 0, 0, 0, 0, 0, 0>>)>>}

\* C14: an Add, Sub or Mul on Int32 or Int64 operands never traps: executing
\* it leaves, in place of the two operands, one value of the operands' type
\* whose bits are the exact sum, difference or product modulo 2^32 or 2^64,
\* and the invocation returns that value.  In particular MAX + 1 = MIN,
\* 0 - 1 = -1, -1 * -1 = 1 and MIN * 2 = 0.
C14_ArithmeticWraps ==
    ArithCase =>
        /\ (Executed /\ LastOp.op = "IntBin") =>
              /\ pc = "exec"
              /\ LastOp.ty = ArithType
              /\ before.stack[1].ty = ArithType
              /\ before.stack[2].ty = ArithType
              /\ Len(stack) = 1
              /\ stack[1].ty = ArithType
              /\ IsArith(ArithName, before.stack[1].bytes,
                         before.stack[2].bytes, stack[1].bytes)
        /\ \A k \in 1..Len(hist) :
              /\ hist[k].result # Trap
              /\ hist[k].result.kind = "Value"
              /\ hist[k].result.some
              /\ hist[k].result.v.ty = ArithType
              /\ IsArith(ArithName, hist[k].args[1].bytes,
                         hist[k].args[2].bytes, hist[k].result.v.bytes)
              /\ \A c \in KnownArith :
                    (c[1] = ArithName /\ hist[k].args = <<c[2], c[3]>>) =>
                        hist[k].result = ValueSome(c[4])

\* 2147483647 + 1 has returned -2147483648 to an assert_trap, which fails
C14_Witness ==
    /\ script[1] = BinModule("i32.add", "i32")
    /\ pc = "panic" /\ why = "assert_eq"
    /\ asserts[ai].kind = "Trap"
    /\ hist = <<[func |-> 0,
                 args |-> <<I32(<<255, 255, 255, 127>>), I32(<<1, 0, 0, 0>>)>>,
                 result |-> ValueSome(I32(<<0, 0, 0, 128>>))]>>

\* the items of a func form that follow its name, all of them when the form
\* has no name
Body(form) ==
    IF Len(form.items) >= 2 /\ form.items[2].k = "Variable"
    THEN SubSeq(form.items, 3, Len(form.items))
    ELSE Rest(form)

\* C15: the function built from a func form, named or not, is the result of
\* processing each of its param, result, local and instruction forms once, in
\* order: a leading $name is the only item taken as the name.  The func arm
\* stops the parse only when one of those forms cannot be processed.
C15_EveryItemOnce ==
    /\ FuncParsed => builder = FuncItems(NewBuilder, Body(Cur.items[mi]), 1)
    /\ (pc = "panic" /\ why = "func") =>
          ~FuncItems(NewBuilder, Body(Item), 1).ok

\* (func (param $a i32) (result i32) (return (get_local $a))) has stopped the
\* parse: its param form was taken for the name and $a is unbound
C15_Witness ==
    /\ script = UnnamedScript
    /\ pc = "panic" /\ why = "func"
    /\ ~Item.items[2].k = "Variable"
    /\ FuncItems(NewBuilder, Body(Item), 1).ok
    /\ FuncItems(NewBuilder, Body(Item), 1).local_names["$a"] = 0

IsAssertForm(s) == IsForm(s, "assert_return") \/ IsForm(s, "assert_trap")

\* the position in the script of its k-th assert form
AssertPos(k) ==
    CHOOSE j \in 1..Len(script) :
        /\ IsAssertForm(script[j])
        /\ Cardinality({i \in 1..j : IsAssertForm(script[i])}) = k

\* the positions of the module forms before position j
ModulesBefore(j) == {i \in 1..(j - 1) : IsForm(script[i], "module")}

\* the position of the module form that most recently precedes position j
Preceding(j) ==
    CHOOSE i \in ModulesBefore(j) : \A h \in ModulesBefore(j) : h <= i

RECURSIVE BuildFrom(_, _, _, _)
\* the module built from the items i.. of a module form that parses
BuildFrom(items, i, mod, names) ==
    IF i > Len(items) THEN mod
    ELSE IF IsForm(items[i], "func")
    THEN LET r == ParseFunc(Rest(items[i]), mod, names)
         IN  BuildFrom(items, i + 1, r.mod, r.names)
    ELSE IF IsFormN(items[i], "export", 2)
    THEN LET r == ParseExport(items[i].items[2], items[i].items[3], mod, names)
         IN  BuildFrom(items, i + 1, r.mod, names)
    ELSE BuildFrom(items, i + 1, mod, names)

ModuleOf(form) == BuildFrom(Rest(form), 1, NewModule, <<>>)

\* C16: an assert runs against the module form that most recently precedes
\* it in the script: while the invocation of the k-th assert is under way or
\* has ended, the module it runs in is the one built from that form.
C16_AssertsUsePrecedingModule ==
    (pc \in {"exec", "check"} /\ ModulesBefore(AssertPos(ai)) # {}) =>
        module.v = ModuleOf(script[Preceding(AssertPos(ai))])

\* the assert between the two modules has called "f" of the later module:
\* f(7) has returned 14, where the module before the assert returns 7
C16_Witness ==
    /\ Len(script) = 3
    /\ script[1] = IdModule /\ script[3] = TwiceModule
    /\ IsAssertForm(script[2])
    /\ pc = "check" /\ ai = 1
    /\ module.v = ModuleOf(TwiceModule)
    /\ module.v # ModuleOf(IdModule)
    /\ result = ValueSome(I32(<<14, 0, 0, 0>>))

\* the assert a form of the script stands for
AssertOf(form) ==
    IF IsForm(form, "assert_return")
    THEN [kind |-> "Return", invoke |-> parse_invoke(form.items[2]).v,
          result |-> parse_const(form.items[3]).v]
    ELSE [kind |-> "Trap", invoke |-> parse_invoke(form.items[2]).v]

\* run_all is at work or has ended
Running ==
    \/ pc \in {"run", "exec", "check", "done"}
    \/ pc = "panic" /\ why \in {"find", "signature", "engine", "assert_eq"}

\* the result res is what the assert a requires
Passes(a, res) ==
    \/ a.kind = "Return" /\ res.kind = "Value" /\ res.some /\ res.v = a.result
    \/ a.kind = "Trap" /\ res.kind = "Trap"

\* C17: run_all works on one module and runs the asserts in the order of
\* their forms in the script, one invocation each.  An assert_return passes
\* only when the invocation returned Value(Some(expected)), an assert_trap
\* only when it trapped; an assert is run only after every assert before it
\* has passed, and after the first one that fails nothing more happens.
C17_RunAllInOrder ==
    /\ [](Running =>
            /\ Len(asserts) = Cardinality({j \in 1..Len(script) :
                                             IsAssertForm(script[j])})
            /\ \A k \in 1..Len(asserts) :
                  asserts[k] = AssertOf(script[AssertPos(k)])
            /\ ai \in 1..(Len(asserts) + 1)
            /\ Len(hist) \in {ai - 1, ai}
            /\ Len(hist) <= Len(asserts)
            /\ \A k \in 1..Len(hist) :
                  /\ hist[k].args = asserts[k].invoke.arguments
                  /\ find(module.v, asserts[k].invoke.function_name)
                       = [some |-> TRUE, v |-> hist[k].func]
            /\ \A k \in 1..(ai - 1) : Passes(asserts[k], hist[k].result))
    /\ []((pc = "done") => (Len(hist) = Len(asserts) /\ ai = Len(asserts) + 1))
    /\ []((pc = "panic" /\ why = "assert_eq") =>
            /\ Len(hist) = ai
            /\ hist[ai].result = result
            /\ ~Passes(asserts[ai], result))
    /\ [][(pc = "check") =>
            /\ Passes(asserts[ai], result) =>
                  (pc' = "run" /\ ai' = ai + 1 /\ hist' = hist)
            /\ ~Passes(asserts[ai], result) =>
                  (pc' = "panic" /\ why' = "assert_eq")]_vars
    /\ [][pc # "panic"]_vars
    /\ [][(pc \in {"run", "exec", "check"}) =>
            (module' = module /\ asserts' = asserts)]_vars

\* the first assert of three forms has failed: set(7) returned 7, not 3; the
\* passing assert behind it has not run
C17_Witness ==
    /\ script[1] = LocalModule /\ Len(script) = 3
    /\ pc = "panic" /\ why = "assert_eq"
    /\ ai = 1 /\ Len(asserts) = 2 /\ Len(hist) = 1
    /\ asserts[1].kind = "Return"
    /\ asserts[1].result = I32(<<3, 0, 0, 0>>)
    /\ result = ValueSome(I32(<<7, 0, 0, 0>>))
    /\ Passes(asserts[2], ValueSome(I32(<<7, 0, 0, 0>>)))

\* the literal script's value type and literal token
LitCase == \E ty \in {"i32", "i64"} : script[1] = LitModule(ty) /\ Len(script) = 2

LitType == IF script[1] = LitModule("i32") THEN "Int32" ELSE "Int64"

LitText == script[2].items[2].items[3].items[2].text

Low(bytes) == bytes \o <<0, 0, 0, 0>>

High(bytes) == bytes \o <<255, 255, 255, 255>>

\* the bit pattern of n modulo 2^32 for each literal n in
\* -2^31 .. 2^32 - 1; <<>> for a literal outside that range
Expect32(text) ==
    CASE text = "0" -> <<0, 0, 0, 0>>
      [] text = "1" -> <<1, 0, 0, 0>>
      [] text = "7" -> <<7, 0, 0, 0>>
      [] text = "10" -> <<10, 0, 0, 0>>
      [] text = "0x10" -> <<16, 0, 0, 0>>
      [] text = "-1" -> <<255, 255, 255, 255>>
      [] text = "-7" -> <<249, 255, 255, 255>>
      [] text = "2147483647" -> <<255, 255, 255, 127>>
      [] text = "2147483648" -> <<0, 0, 0, 128>>
      [] text = "0x80000000" -> <<0, 0, 0, 128>>
      [] text = "-2147483648" -> <<0, 0, 0, 128>>
      [] text = "4294967295" -> <<255, 255, 255, 255>>
      [] text = "0xffffffff" -> <<255, 255, 255, 255>>
      [] OTHER -> <<>>

\* the bit pattern of n modulo 2^64 for each literal n in
\* -2^63 .. 2^64 - 1; <<>> for a literal outside that range
Expect64(text) ==
    CASE text \in {"0", "1", "7", "10", "0x10", "2147483647", "2147483648",
                   "0x80000000", "4294967295", "0xffffffff"} ->
             Low(Expect32(text))
      [] text \in {"-1", "-7", "-2147483648"} -> High(Expect32(text))
      [] text = "-2147483649" -> High(<<255, 255, 255, 127>>)
      [] text \in {"4294967296", "0x100000000"} -> <<0, 0, 0, 0, 1, 0, 0, 0>>
      [] text = "-9223372036854775808" -> <<0, 0, 0, 0, 0, 0, 0, 128>>
      [] text \in {"18446744073709551615", "0xffffffffffffffff"} ->
             High(<<255, 255, 255, 255>>)
      [] OTHER -> <<>>

LitExpect == IF LitType = "Int32" THEN Expect32(LitText) ELSE Expect64(LitText)

\* C18: an integer literal of width w is accepted when it is a decimal
\* number in -2^(w-1) .. 2^w - 1 or a 0x hexadecimal number up to 2^w - 1,
\* and its value is then the bit pattern of that number modulo 2^w, so that
\* -1 and the all-ones hexadecimal literal are the same value; the function
\* called with it receives and returns that value.  A literal outside the
\* range stops the parse at the form that holds it.
C18_LiteralRange ==
    LitCase =>
        /\ (pc = "panic" /\ why = "assert form") => (ti = 2 /\ LitExpect = <<>>)
        /\ ti > 2 =>
              /\ LitExpect # <<>>
              /\ asserts[1].invoke.arguments = <<Dynamic(LitType, LitExpect)>>
        /\ \A k \in 1..Len(hist) :
              /\ hist[k].args = <<Dynamic(LitType, LitExpect)>>
              /\ hist[k].result = ValueSome(Dynamic(LitType, LitExpect))
        /\ pc \in {"parse", "module", "run", "exec", "check", "done", "panic"}
        /\ pc = "panic" => why \in {"assert form", "assert_eq"}

\* 4294967296 as an i32 literal has stopped the parse at its assert form
C18_Witness ==
    /\ script[1] = LitModule("i32")
    /\ LitCase
    /\ LitText = "4294967296"
    /\ pc = "panic" /\ why = "assert form"
    /\ ti = 2 /\ asserts = <<>>

=============================================================================
